---- MODULE Spec2Model ----
(***************************************************************************)
(* CookBook: the recipe API (Express handlers over one MongoDB collection) *)
(* in four server variants the repository holds:                           *)
(*   "A"  src/index.js lines 1-231     (ObjectId _id, full-replace PUT)    *)
(*   "B"  src/index.js lines 233-497   (string _id on create)              *)
(*   "C"  src/unnamed/part_002 1-245   (buildIdQuery on every route)       *)
(*   "D"  src/unnamed/part_001 250-500 (documents answered as stored)      *)
(* Text is a sequence of one-character strings, so that trim(), split()    *)
(* and the hexadecimal parsing of ObjectId are computed, not assumed.      *)
(***************************************************************************)
EXTENDS Integers, Sequences, FiniteSets, TLC

\* ---------------------------------------------------------------- bounds
\* Length of the hexadecimal form of an ObjectId (24 in the driver).
ObjectIdHexLen == 2
\* Number of ObjectIds the generator hands out to create requests.
MaxCreates == 1
\* Largest value of the clock behind new Date().
MaxTime == 2
\* Longest comments sequence a recipe gets.
MaxComments == 2
\* Number of requests a behaviour serves after start-up.
MaxRequests == 2
\* Number of variant A PUT requests between their two store calls at one time.
MaxInFlight == 1
\* The longest free text handed to splitLines, in characters.
MaxTextLen == 4
\* The longest stored list of lines put into the edit form.
MaxLines == 2
\* How many clicks and submits the user of the page makes.
MaxClicks == 2

\* ---------------------------------------------------------------- text
WhiteSpace == {" ", "\n", "\r"}

\* String.prototype.trim(): drop white space at both ends.
RECURSIVE TrimLeft(_)
TrimLeft(s) ==
  IF s # <<>> /\ Head(s) \in WhiteSpace THEN TrimLeft(Tail(s)) ELSE s

RECURSIVE TrimRight(_)
TrimRight(s) ==
  IF s # <<>> /\ s[Len(s)] \in WhiteSpace
  THEN TrimRight(SubSeq(s, 1, Len(s) - 1))
  ELSE s

\* Nothing is stripped.
Trim_Nothing(s) == s

Trim(s) == TrimRight(TrimLeft(s))

\* String.prototype.split("\n"): the pieces between newlines; "" gives [""].
RECURSIVE SplitNewline(_, _)
SplitNewline(s, cur) ==
  IF s = <<>> THEN <<cur>>
  ELSE IF Head(s) = "\n" THEN <<cur>> \o SplitNewline(Tail(s), <<>>)
  ELSE SplitNewline(Tail(s), Append(cur, Head(s)))

\* Nothing is dropped.
FilterNonEmpty_KeepsAll(ss) == ss

\* Array.prototype.filter(Boolean) on strings: drop the empty ones.
RECURSIVE FilterNonEmpty(_)
FilterNonEmpty(ss) ==
  IF ss = <<>> THEN <<>>
  ELSE IF Head(ss) = <<>> THEN FilterNonEmpty(Tail(ss))
  ELSE <<Head(ss)>> \o FilterNonEmpty(Tail(ss))

\* The lines are joined with spaces.
RECURSIVE JoinNewline_Space(_)
JoinNewline_Space(ss) ==
  IF ss = <<>> THEN <<>>
  ELSE IF Len(ss) = 1 THEN Head(ss)
  ELSE Head(ss) \o <<" ">> \o JoinNewline_Space(Tail(ss))

\* Array.prototype.join("\n")
RECURSIVE JoinNewline(_)
JoinNewline(ss) ==
  IF ss = <<>> THEN <<>>
  ELSE IF Len(ss) = 1 THEN Head(ss)
  ELSE Head(ss) \o <<"\n">> \o JoinNewline(Tail(ss))

\* Array.prototype.join(","), which String(array) applies.
RECURSIVE JoinComma(_)
JoinComma(ss) ==
  IF ss = <<>> THEN <<>>
  ELSE IF Len(ss) = 1 THEN Head(ss)
  ELSE Head(ss) \o <<",">> \o JoinComma(Tail(ss))

\* ---------------------------------------------------------------- JSON values of a request body
Undefined == [t |-> "undefined", s |-> <<>>, a |-> <<>>]
Str(s) == [t |-> "string", s |-> s, a |-> <<>>]
Arr(a) == [t |-> "array", s |-> <<>>, a |-> a]

\* JavaScript truthiness: undefined and "" are falsy, every array is truthy.
Truthy(v) == v.t = "array" \/ (v.t = "string" /\ v.s # <<>>)

\* String(value)
StringOf(v) ==
  CASE v.t = "string" -> v.s
    [] v.t = "array" -> JoinComma(v.a)
    [] OTHER -> <<"u", "n", "d", "e", "f", "i", "n", "e", "d">>

\* The default is forgotten: the value is used as sent.
OrEmpty_NoDefault(v) == v

\* value || ""
OrEmpty(v) == IF Truthy(v) THEN v ELSE Str(<<>>)

Uncategorized == <<"U", "n", "c", "a", "t", "e", "g", "o", "r", "i", "z", "e", "d">>

\* The text is kept as one element instead of being split into lines.
splitLines_NoSplit(value) ==
  IF ~Truthy(value) THEN <<>> ELSE <<StringOf(value)>>

\* splitLines(value)
splitLines(value) ==
  IF ~Truthy(value) THEN <<>>
  ELSE LET parts == SplitNewline(StringOf(value), <<>>)
       IN FilterNonEmpty([i \in 1..Len(parts) |-> Trim(parts[i])])

\* app.js ensureArrayMaybeLines(val): an array as it is, else as splitLines
ensureArrayMaybeLines(val) ==
  IF val.t = "array" THEN val.a
  ELSE IF ~Truthy(val) THEN <<>>
  ELSE LET parts == SplitNewline(StringOf(val), <<>>)
       IN FilterNonEmpty([i \in 1..Len(parts) |-> Trim(parts[i])])

\* The default is forgotten: the trimmed category is stored as it is.
normCategory_NoDefault(v) == Trim(StringOf(OrEmpty(v)))

\* (body.category && body.category.trim()) || "Uncategorized"
normCategory(v) ==
  IF Truthy(v) /\ Trim(StringOf(v)) # <<>> THEN Trim(StringOf(v)) ELSE Uncategorized

\* ---------------------------------------------------------------- ObjectId
HexLower == {"0", "1", "2", "3", "4", "5", "6", "7", "8", "9", "a", "b", "c", "d", "e", "f"}
HexUpper == {"A", "B", "C", "D", "E", "F"}

LowerChar(c) ==
  CASE c = "A" -> "a" [] c = "B" -> "b" [] c = "C" -> "c"
    [] c = "D" -> "d" [] c = "E" -> "e" [] c = "F" -> "f"
    [] OTHER -> c

\* ObjectId.isValid(id) for a string: the hexadecimal form, in either case.
ObjectIdIsValid(id) ==
  /\ Len(id) = ObjectIdHexLen
  /\ \A i \in 1..Len(id) : id[i] \in HexLower \cup HexUpper

\* new ObjectId(id): the bytes, written as the lower-case hexadecimal form.
ObjectIdOf(id) == [k |-> "ObjectId", v |-> [i \in 1..Len(id) |-> LowerChar(id[i])]]

StringId(id) == [k |-> "string", v |-> id]

\* _id.toString() / toHexString(): a string is itself, an ObjectId its hex form.
IdToString(_id) == _id.v

GenDigit == <<"a", "b", "c", "d", "e", "f">>

\* The generator makes the same ObjectId every time.
NewHex_Repeats(n) == [i \in 1..ObjectIdHexLen |-> IF i = ObjectIdHexLen THEN GenDigit[1] ELSE "0"]

\* The hexadecimal form of the n-th ObjectId the generator makes (n = 0 and
\* n = 1 are those the records in the collection at start-up carry).
NewHex(n) == [i \in 1..ObjectIdHexLen |-> IF i = ObjectIdHexLen THEN GenDigit[n + 1] ELSE "0"]

UpperChar(c) ==
  CASE c = "a" -> "A" [] c = "b" -> "B" [] c = "c" -> "C"
    [] c = "d" -> "D" [] c = "e" -> "E" [] c = "f" -> "F"
    [] OTHER -> c

\* ---------------------------------------------------------------- the collection
\* A stored document. updatedAt = 0 stands for "no updatedAt field".
Doc(_id, title, description, ingredients, steps, category, createdAt) ==
  [_id |-> _id, title |-> title, description |-> description,
   ingredients |-> ingredients, steps |-> steps, category |-> category,
   comments |-> <<>>, createdAt |-> createdAt, updatedAt |-> 0]

\* A filter on _id is the set of _id values it accepts ({$or: [...]} is a union).
Matches(doc, query) == doc._id \in query

\* The filter is ignored: the first document of the collection is taken.
FirstMatch_AnyDocument(coll, query) == IF coll # <<>> THEN 1 ELSE 0

\* Index of the first document, in natural order, the filter accepts; 0 if none.
FirstMatch(coll, query) ==
  IF \E i \in 1..Len(coll) : Matches(coll[i], query)
  THEN CHOOSE i \in 1..Len(coll) :
         /\ Matches(coll[i], query)
         /\ \A j \in 1..(i - 1) : ~Matches(coll[j], query)
  ELSE 0

\* Nothing is removed.
RemoveAt_KeepsAll(coll, i) == coll

\* collection.deleteOne(query): the collection without the first match.
RemoveAt(coll, i) == SubSeq(coll, 1, i - 1) \o SubSeq(coll, i + 1, Len(coll))

\* No sorting: the document goes to the end, as in natural order.
InsertDesc_Append(sorted, doc) == Append(sorted, doc)

\* collection.find().sort({createdAt: -1}).toArray(): stable, newest first.
RECURSIVE InsertDesc(_, _)
InsertDesc(sorted, doc) ==
  IF sorted = <<>> THEN <<doc>>
  ELSE IF Head(sorted).createdAt >= doc.createdAt
       THEN <<Head(sorted)>> \o InsertDesc(Tail(sorted), doc)
       ELSE <<doc>> \o sorted

RECURSIVE SortCreatedAtDesc(_)
SortCreatedAtDesc(coll) ==
  IF coll = <<>> THEN <<>>
  ELSE InsertDesc(SortCreatedAtDesc(SubSeq(coll, 1, Len(coll) - 1)), coll[Len(coll)])

\* ---------------------------------------------------------------- identifier policy
\* index.js (second variant) PUT and DELETE: ObjectId.isValid(id) ? {_id: new ObjectId(id)} : {_id: id}
idQueryTernary_B(id) ==
  IF ObjectIdIsValid(id) THEN {ObjectIdOf(id)} ELSE {StringId(id)}

\* index.js (second variant) buildIdQuery, used by add-comment
buildIdQuery_B(id) ==
  {StringId(id)} \cup (IF ObjectIdIsValid(id) THEN {ObjectIdOf(id)} ELSE {})

\* part_002 (first variant) buildIdQuery, used by PUT, DELETE and add-comment
buildIdQuery_C(id) ==
  {StringId(id)} \cup (IF ObjectIdIsValid(id) THEN {ObjectIdOf(id)} ELSE {})

\* index.js (first variant) cleanRecipe: null stays null, _id becomes a string.
\* A nullable document is a sequence of at most one document.
cleanRecipe(doc) ==
  [i \in 1..Len(doc) |-> [doc[i] EXCEPT !._id = StringId(IdToString(doc[i]._id))]]

\* { ...d, _id: typeof d._id === "string" ? d._id : d._id.toString() }
withStringId(d) == [d EXCEPT !._id = StringId(IdToString(d._id))]

\* part_001 (second variant) buildIdQuery, used by DELETE and add-comment:
\* try { new ObjectId(id): {$or: [{_id: oid}, {_id: id}]} } catch { {_id: id} }
buildIdQuery_D(id) ==
  IF ObjectIdIsValid(id) THEN {ObjectIdOf(id), StringId(id)} ELSE {StringId(id)}

\* The document goes out as it is stored.
toJSON_Raw(d) == d

\* res.json(doc) for a document as stored: JSON.stringify calls toJSON() of an
\* ObjectId, which gives its hexadecimal string; a string stays a string.
toJSON(d) == [d EXCEPT !._id = IF @.k = "ObjectId" THEN StringId(IdToString(@)) ELSE @]

\* ---------------------------------------------------------------- state
VARIABLES
  variant,    \* which server variant is deployed: "A", "B", "C" or "D"
  recipes,    \* the collection, in natural (insertion) order
  now,        \* the clock behind new Date()
  nextOid,    \* how many ObjectIds the generator has made
  served,     \* how many requests have arrived
  inFlight,   \* variant A PUT requests between their updateOne and their findOne
  last,       \* the request answered last, its response, the collection before it
  created,    \* history: the ids create responses have carried
  deleted,    \* history: the path ids DELETE has answered 200 {ok: true} for
  uri,        \* whether connect.env gives MONGODB_URI
  phase,      \* the server process: "start", "connecting", "listening" or "exited"
  connected,  \* whether client.connect() has resolved
  failedCalls,\* history: how many store calls have thrown
  input,      \* text functions: the value a function is applied to
  output,     \* text functions: what it returned
  applied,    \* text functions: which one was applied, "none" before
  editingId,        \* app.js: the _id of the recipe being edited, or null
  currentRecipes,   \* app.js: the list loaded last
  recipesContainer, \* app.js: what the page shows in #recipes-container
  fetches,          \* app.js: the fetch calls that have not settled yet
  delivered,        \* history: the fetch settled last; the list fetch settled last, the one
                    \* before it, and whether a list fetch settled while another was pending
  clicks            \* history: how many clicks and submits the user has made

\* The server process and its failures.
processVars == <<uri, phase, connected, failedCalls>>

\* The collection and the requests served on it.
apiVars == <<variant, recipes, now, nextOid, served, inFlight, last, created, deleted>>

\* The value the text functions are tried on.
textVars == <<input, output, applied>>

\* The page in the browser.
clientVars == <<editingId, currentRecipes, recipesContainer, fetches, delivered, clicks>>

\* What serving a request leaves alone.
asideVars == <<textVars, clientVars>>

vars == <<apiVars, processVars, asideVars>>

\* ---------------------------------------------------------------- requests
\* A request body: every field is a JSON value, Undefined when not sent.
\* comments is a field no handler reads; a client can send it all the same.
Body(title, description, ingredients, steps, category, text) ==
  [title |-> title, description |-> description, ingredients |-> ingredients,
   steps |-> steps, category |-> category, text |-> text, comments |-> Undefined]

EmptyBody == Body(Undefined, Undefined, Undefined, Undefined, Undefined, Undefined)

\* Bodies of POST /api/recipes: no title, blank title, and two with a title
\* (ingredients as text of several lines; steps as an array of lines).
CreateBodies ==
  { EmptyBody,
    [EmptyBody EXCEPT !.title = Str(<<" ">>), !.description = Str(<<"d">>)],
    [EmptyBody EXCEPT !.title = Str(<<" ", "a">>),
                      !.ingredients = Str(<<"a", "\n", " ", "b", "\n", "\n">>)],
    Body(Str(<<"a", " ">>), Str(<<"d">>), Str(<<"a">>),
         Arr(<<<<"a">>, <<"b">>>>), Str(<<" ", "c">>), Undefined) }

\* Bodies of PUT /api/recipes/:id: subsets of the five editable fields (none,
\* one alone, two together, all), bodies with a blank title or category, a
\* body that also carries comments, and one with ingredients as an array.
UpdateBodies ==
  { EmptyBody,
    [EmptyBody EXCEPT !.title = Str(<<"b", " ">>), !.comments = Arr(<<>>)],
    [EmptyBody EXCEPT !.description = Str(<<"e">>)],
    [EmptyBody EXCEPT !.ingredients = Arr(<<<<"b">>, <<"a">>>>), !.steps = Str(<<"b">>)],
    [EmptyBody EXCEPT !.category = Str(<<"c", " ">>)],
    Body(Str(<<"b", " ">>), Str(<<"e">>), Str(<<"b", "\n", "a">>), Str(<<"b">>),
         Str(<<"c", " ">>), Undefined),
    [EmptyBody EXCEPT !.title = Str(<<" ">>), !.description = Str(<<"e">>)],
    [EmptyBody EXCEPT !.category = Str(<<" ">>)] }

\* Bodies of POST /api/recipes/:id/comments.
CommentBodies ==
  { EmptyBody,
    [EmptyBody EXCEPT !.text = Str(<<" ", "\n">>)],
    [EmptyBody EXCEPT !.text = Str(<<" ", "a", " ">>)] }

\* Path ids a client sends: the hexadecimal form of every ObjectId the
\* collection holds or the generator will make (well-formed, and matching
\* nothing until it is made), an upper-case spelling, and two malformed ones
\* (not hexadecimal; too short).
PathIds ==
  { NewHex(n) : n \in 0..(MaxCreates + 1) }
  \cup { [i \in 1..ObjectIdHexLen |-> UpperChar(NewHex(0)[i])],
         [i \in 1..ObjectIdHexLen |-> "z"],
         Tail(NewHex(0)) }

\* ---------------------------------------------------------------- responses
NoBody == EmptyBody

\* op, id, body: the request. status, error, out (the recipes of the response
\* body: none, one, or the list), ok ({ok: true}): the response. pre, post: the
\* collection when the request arrived and when it was answered. del: the
\* deletions answered before the request arrived. again: for a list answered
\* right after another list, what that one answered and the collection then.
Response(op, id, body, status, error, out, ok, pre, post) ==
  [op |-> op, id |-> id, body |-> body, status |-> status, error |-> error,
   out |-> out, ok |-> ok, pre |-> pre, post |-> post, del |-> deleted,
   again |-> <<>>]

\* res.json(cleaned) of GET /api/recipes
ListResponse(cleaned) ==
  [Response("list", <<>>, NoBody, 200, "", cleaned, FALSE, recipes, recipes)
     EXCEPT !.again = IF last.op = "list"
                      THEN <<[out |-> last.out, post |-> last.post]>>
                      ELSE <<>>]

\* res.status(s).json({ error })
ErrorResponse(op, id, body, status, error) ==
  Response(op, id, body, status, error, <<>>, FALSE, recipes, recipes)

\* ---------------------------------------------------------------- start-up
\* A record an earlier deployment left in the collection: made by the create
\* handler of variant A or C (ObjectId _id) or of variant B (string _id).
LegacyDoc(_id) == Doc(_id, <<"a">>, <<>>, <<<<"a">>>>, <<>>, Uncategorized, 1)

\* null
Null == [t |-> "null", s |-> <<>>, a |-> <<>>]

\* What #recipes-container shows: the loading, empty-list or error notice, or
\* one card for each recipe of cards.
Container(kind, cards) == [kind |-> kind, cards |-> cards]

\* A fetch call: sent, then answered by the server or lost on the way.
Fetch(call, method, id, body) ==
  [call |-> call, method |-> method, id |-> id, body |-> body,
   state |-> "sent", status |-> 0, out |-> <<>>]

\* No fetch has settled.
NoneDelivered ==
  [n |-> 0, f |-> Fetch("none", "", <<>>, NoBody),
   load |-> Fetch("none", "", <<>>, NoBody), before |-> Fetch("none", "", <<>>, NoBody),
   overlap |-> FALSE]

\* No page is open.
NoClient ==
  /\ editingId = Null
  /\ currentRecipes = <<>>
  /\ recipesContainer = Container("loading", <<>>)
  /\ fetches = <<>>
  /\ delivered = NoneDelivered
  /\ clicks = 0

\* No text function is under test.
NoText ==
  /\ input = Undefined
  /\ output = <<>>
  /\ applied = "none"

Init ==
  /\ variant \in {"A", "B", "C", "D"}
  /\ recipes \in { <<>>,
                   <<LegacyDoc(ObjectIdOf(NewHex(0))), LegacyDoc(StringId(NewHex(1)))>> }
  /\ now = 1
  /\ nextOid = 2
  /\ served = 0
  /\ inFlight = <<>>
  /\ last = [op |-> "none", id |-> <<>>, body |-> NoBody, status |-> 0, error |-> "",
             out |-> <<>>, ok |-> FALSE, pre |-> <<>>, post |-> <<>>, del |-> {},
             again |-> <<>>]
  /\ created = {}
  /\ deleted = {}
  /\ uri = TRUE
  /\ phase = "listening"
  /\ connected = TRUE
  /\ failedCalls = 0
  /\ NoText
  /\ NoClient

\* Time passes.
Tick ==
  /\ now < MaxTime
  /\ now' = now + 1
  /\ UNCHANGED <<variant, recipes, nextOid, served, inFlight, last, created, deleted>>
  /\ UNCHANGED <<processVars, asideVars>>

\* A request arrives: the process is listening, and no store call of the
\* request throws.
Arrive ==
  /\ phase = "listening"
  /\ served < MaxRequests
  /\ served' = served + 1
  /\ UNCHANGED <<processVars, asideVars>>

\* The handler answers an error and touches nothing else.
Reject(op, id, body, status, error) ==
  /\ last' = ErrorResponse(op, id, body, status, error)
  /\ UNCHANGED <<recipes, nextOid, inFlight, created, deleted>>

\* The comment replaces the comments the document has ($set, not $push).
PushComment_Overwrite(coll, i, comment) ==
  [coll EXCEPT ![i].comments = <<comment>>]

\* findOneAndUpdate(query, {$push: {comments: comment}}) on the document at i
PushComment(coll, i, comment) ==
  [coll EXCEPT ![i].comments = Append(@, comment)]

\* ---------------------------------------------------------------- variant A: src/index.js 1-231
\* GET /api/recipes
GetRecipes_A ==
  /\ variant = "A"
  /\ Arrive
  /\ LET docs == SortCreatedAtDesc(recipes)
     IN last' = ListResponse([i \in 1..Len(docs) |-> cleanRecipe(<<docs[i]>>)[1]])
  /\ UNCHANGED <<variant, recipes, now, nextOid, inFlight, created, deleted>>

\* POST /api/recipes
PostRecipe_A(body) ==
  /\ variant = "A"
  /\ Arrive
  /\ LET title == Trim(StringOf(OrEmpty(body.title)))
         recipe == Doc(ObjectIdOf(NewHex(nextOid)), title,
                       StringOf(OrEmpty(body.description)),
                       splitLines(body.ingredients), splitLines(body.steps),
                       normCategory(body.category), now)
     IN IF title = <<>>
        THEN Reject("create", <<>>, body, 400, "Title is required")
        ELSE /\ nextOid <= MaxCreates + 1
             /\ recipes' = Append(recipes, recipe)
             /\ nextOid' = nextOid + 1
             /\ last' = Response("create", <<>>, body, 201, "",
                                 cleanRecipe(<<recipe>>), FALSE, recipes, recipes')
             /\ created' = created \cup {IdToString(recipe._id)}
             /\ UNCHANGED <<inFlight, deleted>>
  /\ UNCHANGED <<variant, now>>

\* The update also stamps createdAt.
fullUpdate_A_Restamps(doc, title, body, at) ==
  [doc EXCEPT !.title = title,
              !.description = StringOf(OrEmpty(body.description)),
              !.ingredients = splitLines(body.ingredients),
              !.steps = splitLines(body.steps),
              !.category = normCategory(body.category),
              !.createdAt = at,
              !.updatedAt = at]

\* The $set document of variant A's PUT: every field, sent or not, and updatedAt.
fullUpdate_A(doc, title, body, at) ==
  [doc EXCEPT !.title = title,
              !.description = StringOf(OrEmpty(body.description)),
              !.ingredients = splitLines(body.ingredients),
              !.steps = splitLines(body.steps),
              !.category = normCategory(body.category),
              !.updatedAt = at]

\* PUT /api/recipes/:id, up to and including updateOne
PutRecipe_A_updateOne(id, body) ==
  /\ variant = "A"
  /\ Arrive
  /\ LET title == IF body.title # Undefined THEN Trim(StringOf(body.title)) ELSE <<>>
         i == FirstMatch(recipes, {ObjectIdOf(id)})
     IN IF ~ObjectIdIsValid(id)
        THEN Reject("update", id, body, 400, "Invalid recipe id")
        ELSE IF title = <<>>
        THEN Reject("update", id, body, 400, "Title cannot be empty")
        ELSE IF i = 0
        THEN Reject("update", id, body, 404, "Recipe not found")
        ELSE /\ Len(inFlight) < MaxInFlight
             /\ recipes' = [recipes EXCEPT ![i] = fullUpdate_A(@, title, body, now)]
             /\ inFlight' = Append(inFlight, [id |-> id, body |-> body, pre |-> recipes,
                                             del |-> deleted])
             /\ UNCHANGED <<nextOid, last, created, deleted>>
  /\ UNCHANGED <<variant, now>>

\* PUT /api/recipes/:id, from findOne to the response
PutRecipe_A_findOne ==
  /\ variant = "A"
  /\ \E k \in 1..Len(inFlight) :
       LET r == inFlight[k]
           i == FirstMatch(recipes, {ObjectIdOf(r.id)})
           updatedDoc == IF i = 0 THEN <<>> ELSE <<recipes[i]>>
       IN /\ last' = [Response("update", r.id, r.body, 200, "",
                               cleanRecipe(updatedDoc), FALSE, r.pre, recipes)
                        EXCEPT !.del = r.del]
          /\ inFlight' = RemoveAt(inFlight, k)
  /\ UNCHANGED <<variant, recipes, now, nextOid, served, created, deleted>>
  /\ UNCHANGED <<processVars, asideVars>>

\* DELETE /api/recipes/:id
DeleteRecipe_A(id) ==
  /\ variant = "A"
  /\ Arrive
  /\ LET i == FirstMatch(recipes, {ObjectIdOf(id)})
     IN IF ~ObjectIdIsValid(id)
        THEN Reject("delete", id, NoBody, 400, "Invalid recipe id")
        ELSE IF i = 0
        THEN Reject("delete", id, NoBody, 404, "Recipe not found")
        ELSE /\ recipes' = RemoveAt(recipes, i)
             /\ last' = Response("delete", id, NoBody, 200, "", <<>>, TRUE, recipes, recipes')
             /\ deleted' = deleted \cup {[id |-> id, rid |-> IdToString(recipes[i]._id)]}
             /\ UNCHANGED <<nextOid, inFlight, created>>
  /\ UNCHANGED <<variant, now>>

\* POST /api/recipes/:id/comments
PostComment_A(id, body) ==
  /\ variant = "A"
  /\ Arrive
  /\ LET text == Trim(StringOf(OrEmpty(body.text)))
         i == FirstMatch(recipes, {ObjectIdOf(id)})
         after == PushComment(recipes, i, [text |-> text, createdAt |-> now])
     IN IF text = <<>>
        THEN Reject("comment", id, body, 400, "Comment text is required")
        ELSE IF ~ObjectIdIsValid(id)
        THEN Reject("comment", id, body, 400, "Invalid recipe id")
        ELSE IF i = 0
        THEN Reject("comment", id, body, 404, "Recipe not found")
        ELSE /\ Len(recipes[i].comments) < MaxComments
             /\ recipes' = after
             /\ last' = Response("comment", id, body, 200, "",
                                 cleanRecipe(<<after[i]>>), FALSE, recipes, recipes')
             /\ UNCHANGED <<nextOid, inFlight, created, deleted>>
  /\ UNCHANGED <<variant, now>>

Next_A ==
  \/ GetRecipes_A
  \/ \E body \in CreateBodies : PostRecipe_A(body)
  \/ \E id \in PathIds, body \in UpdateBodies : PutRecipe_A_updateOne(id, body)
  \/ PutRecipe_A_findOne
  \/ \E id \in PathIds : DeleteRecipe_A(id)
  \/ \E id \in PathIds, body \in CommentBodies : PostComment_A(id, body)

\* ---------------------------------------------------------------- variant B: src/index.js 233-497
\* The $set document takes comments from the body as well.
partialUpdate_WithComments(doc, body) ==
  [doc EXCEPT
     !.title = IF body.title # Undefined THEN Trim(StringOf(body.title)) ELSE @,
     !.description = IF body.description # Undefined THEN StringOf(body.description) ELSE @,
     !.ingredients = IF body.ingredients # Undefined THEN splitLines(body.ingredients) ELSE @,
     !.steps = IF body.steps # Undefined THEN splitLines(body.steps) ELSE @,
     !.category = IF body.category # Undefined THEN normCategory(body.category) ELSE @,
     !.comments = IF body.comments # Undefined THEN body.comments.a ELSE @]

\* The $set document of the partial PUT: only the fields the body carries.
partialUpdate(doc, body) ==
  [doc EXCEPT
     !.title = IF body.title # Undefined THEN Trim(StringOf(body.title)) ELSE @,
     !.description = IF body.description # Undefined THEN StringOf(body.description) ELSE @,
     !.ingredients = IF body.ingredients # Undefined THEN splitLines(body.ingredients) ELSE @,
     !.steps = IF body.steps # Undefined THEN splitLines(body.steps) ELSE @,
     !.category = IF body.category # Undefined THEN normCategory(body.category) ELSE @]

\* The title check is left out.
blankTitleSent_Never(body) == FALSE

\* if (body.title !== undefined) { ...; if (!title) return 400 }
blankTitleSent(body) ==
  body.title # Undefined /\ Trim(StringOf(body.title)) = <<>>

\* GET /api/recipes
GetRecipes_B ==
  /\ variant = "B"
  /\ Arrive
  /\ LET docs == SortCreatedAtDesc(recipes)
     IN last' = ListResponse([i \in 1..Len(docs) |-> withStringId(docs[i])])
  /\ UNCHANGED <<variant, recipes, now, nextOid, inFlight, created, deleted>>

\* POST /api/recipes
PostRecipe_B(body) ==
  /\ variant = "B"
  /\ Arrive
  /\ LET title == Trim(StringOf(OrEmpty(body.title)))
         id == IdToString(ObjectIdOf(NewHex(nextOid)))
         recipe == Doc(StringId(id), title,
                       StringOf(OrEmpty(body.description)),
                       splitLines(OrEmpty(body.ingredients)),
                       splitLines(OrEmpty(body.steps)),
                       normCategory(body.category), now)
     IN IF title = <<>>
        THEN Reject("create", <<>>, body, 400, "Title is required")
        ELSE /\ nextOid <= MaxCreates + 1
             /\ recipes' = Append(recipes, recipe)
             /\ nextOid' = nextOid + 1
             /\ last' = Response("create", <<>>, body, 201, "", <<recipe>>, FALSE, recipes, recipes')
             /\ created' = created \cup {IdToString(recipe._id)}
             /\ UNCHANGED <<inFlight, deleted>>
  /\ UNCHANGED <<variant, now>>

\* PUT /api/recipes/:id
PutRecipe_B(id, body) ==
  /\ variant = "B"
  /\ Arrive
  /\ LET query == idQueryTernary_B(id)
         i == FirstMatch(recipes, query)
         after == [recipes EXCEPT ![i] = partialUpdate(@, body)]
     IN IF blankTitleSent(body)
        THEN Reject("update", id, body, 400, "Title cannot be empty")
        ELSE IF i = 0
        THEN Reject("update", id, body, 404, "Recipe not found")
        ELSE /\ recipes' = after
             /\ last' = Response("update", id, body, 200, "",
                                 <<withStringId(after[i])>>, FALSE, recipes, recipes')
             /\ UNCHANGED <<nextOid, inFlight, created, deleted>>
  /\ UNCHANGED <<variant, now>>

\* DELETE /api/recipes/:id
DeleteRecipe_B(id) ==
  /\ variant = "B"
  /\ Arrive
  /\ LET query == idQueryTernary_B(id)
         i == FirstMatch(recipes, query)
     IN IF i = 0
        THEN Reject("delete", id, NoBody, 404, "Recipe not found")
        ELSE /\ recipes' = RemoveAt(recipes, i)
             /\ last' = Response("delete", id, NoBody, 200, "", <<>>, TRUE, recipes, recipes')
             /\ deleted' = deleted \cup {[id |-> id, rid |-> IdToString(recipes[i]._id)]}
             /\ UNCHANGED <<nextOid, inFlight, created>>
  /\ UNCHANGED <<variant, now>>

\* POST /api/recipes/:id/comments
PostComment_B(id, body) ==
  /\ variant = "B"
  /\ Arrive
  /\ LET text == Trim(StringOf(OrEmpty(body.text)))
         filter == buildIdQuery_B(id)
         i == FirstMatch(recipes, filter)
         after == PushComment(recipes, i, [text |-> text, createdAt |-> now])
     IN IF text = <<>>
        THEN Reject("comment", id, body, 400, "Comment text is required")
        ELSE IF i = 0
        THEN Reject("comment", id, body, 404, "Recipe not found")
        ELSE /\ Len(recipes[i].comments) < MaxComments
             /\ recipes' = after
             /\ last' = Response("comment", id, body, 200, "",
                                 <<withStringId(after[i])>>, FALSE, recipes, recipes')
             /\ UNCHANGED <<nextOid, inFlight, created, deleted>>
  /\ UNCHANGED <<variant, now>>

Next_B ==
  \/ GetRecipes_B
  \/ \E body \in CreateBodies : PostRecipe_B(body)
  \/ \E id \in PathIds, body \in UpdateBodies : PutRecipe_B(id, body)
  \/ \E id \in PathIds : DeleteRecipe_B(id)
  \/ \E id \in PathIds, body \in CommentBodies : PostComment_B(id, body)

\* ---------------------------------------------------------------- variant C: src/unnamed/part_002 1-245
\* The list writes its sorted result back as the collection.
GetRecipes_C_StoresOrder ==
  /\ variant = "C"
  /\ Arrive
  /\ LET docs == SortCreatedAtDesc(recipes)
     IN /\ last' = ListResponse([i \in 1..Len(docs) |-> withStringId(docs[i])])
        /\ recipes' = docs
  /\ UNCHANGED <<variant, now, nextOid, inFlight, created, deleted>>

\* GET /api/recipes
GetRecipes_C ==
  /\ variant = "C"
  /\ Arrive
  /\ LET docs == SortCreatedAtDesc(recipes)
     IN last' = ListResponse([i \in 1..Len(docs) |-> withStringId(docs[i])])
  /\ UNCHANGED <<variant, recipes, now, nextOid, inFlight, created, deleted>>

\* POST /api/recipes: insertOne gives the document an ObjectId _id
PostRecipe_C(body) ==
  /\ variant = "C"
  /\ Arrive
  /\ LET title == Trim(StringOf(OrEmpty(body.title)))
         recipe == Doc(ObjectIdOf(NewHex(nextOid)), title,
                       StringOf(OrEmpty(body.description)),
                       splitLines(OrEmpty(body.ingredients)),
                       splitLines(OrEmpty(body.steps)),
                       normCategory(body.category), now)
     IN IF title = <<>>
        THEN Reject("create", <<>>, body, 400, "Title is required")
        ELSE /\ nextOid <= MaxCreates + 1
             /\ recipes' = Append(recipes, recipe)
             /\ nextOid' = nextOid + 1
             /\ last' = Response("create", <<>>, body, 201, "",
                                 <<withStringId(recipe)>>, FALSE, recipes, recipes')
             /\ created' = created \cup {IdToString(recipe._id)}
             /\ UNCHANGED <<inFlight, deleted>>
  /\ UNCHANGED <<variant, now>>

\* PUT /api/recipes/:id
PutRecipe_C(id, body) ==
  /\ variant = "C"
  /\ Arrive
  /\ LET query == buildIdQuery_C(id)
         i == FirstMatch(recipes, query)
         after == [recipes EXCEPT ![i] = partialUpdate(@, body)]
     IN IF blankTitleSent(body)
        THEN Reject("update", id, body, 400, "Title cannot be empty")
        ELSE IF i = 0
        THEN Reject("update", id, body, 404, "Recipe not found")
        ELSE /\ recipes' = after
             /\ last' = Response("update", id, body, 200, "",
                                 <<withStringId(after[i])>>, FALSE, recipes, recipes')
             /\ UNCHANGED <<nextOid, inFlight, created, deleted>>
  /\ UNCHANGED <<variant, now>>

\* The handler calls deleteMany({}) once its lookup has found the recipe.
DeleteRecipe_C_Many(id) ==
  /\ variant = "C"
  /\ Arrive
  /\ LET query == buildIdQuery_C(id)
         i == FirstMatch(recipes, query)
     IN IF i = 0
        THEN Reject("delete", id, NoBody, 404, "Recipe not found")
        ELSE /\ recipes' = <<>>
             /\ last' = Response("delete", id, NoBody, 200, "", <<>>, TRUE, recipes, recipes')
             /\ deleted' = deleted \cup {[id |-> id, rid |-> IdToString(recipes[i]._id)]}
             /\ UNCHANGED <<nextOid, inFlight, created>>
  /\ UNCHANGED <<variant, now>>

\* DELETE /api/recipes/:id
DeleteRecipe_C(id) ==
  /\ variant = "C"
  /\ Arrive
  /\ LET query == buildIdQuery_C(id)
         i == FirstMatch(recipes, query)
     IN IF i = 0
        THEN Reject("delete", id, NoBody, 404, "Recipe not found")
        ELSE /\ recipes' = RemoveAt(recipes, i)
             /\ last' = Response("delete", id, NoBody, 200, "", <<>>, TRUE, recipes, recipes')
             /\ deleted' = deleted \cup {[id |-> id, rid |-> IdToString(recipes[i]._id)]}
             /\ UNCHANGED <<nextOid, inFlight, created>>
  /\ UNCHANGED <<variant, now>>

\* POST /api/recipes/:id/comments
PostComment_C(id, body) ==
  /\ variant = "C"
  /\ Arrive
  /\ LET query == buildIdQuery_C(id)
         text == Trim(StringOf(OrEmpty(body.text)))
         i == FirstMatch(recipes, query)
         after == PushComment(recipes, i, [text |-> text, createdAt |-> now])
     IN IF text = <<>>
        THEN Reject("comment", id, body, 400, "Comment text is required")
        ELSE IF i = 0
        THEN Reject("comment", id, body, 404, "Recipe not found")
        ELSE /\ Len(recipes[i].comments) < MaxComments
             /\ recipes' = after
             /\ last' = Response("comment", id, body, 200, "",
                                 <<withStringId(after[i])>>, FALSE, recipes, recipes')
             /\ UNCHANGED <<nextOid, inFlight, created, deleted>>
  /\ UNCHANGED <<variant, now>>

Next_C ==
  \/ GetRecipes_C
  \/ \E body \in CreateBodies : PostRecipe_C(body)
  \/ \E id \in PathIds, body \in UpdateBodies : PutRecipe_C(id, body)
  \/ \E id \in PathIds : DeleteRecipe_C(id)
  \/ \E id \in PathIds, body \in CommentBodies : PostComment_C(id, body)

\* ---------------------------------------------------------------- variant D: src/unnamed/part_001 250-500
\* GET /api/recipes: res.json(docs)
GetRecipes_D ==
  /\ variant = "D"
  /\ Arrive
  /\ LET docs == SortCreatedAtDesc(recipes)
     IN last' = ListResponse([i \in 1..Len(docs) |-> toJSON(docs[i])])
  /\ UNCHANGED <<variant, recipes, now, nextOid, inFlight, created, deleted>>

\* POST /api/recipes: _id is new ObjectId().toString()
PostRecipe_D(body) ==
  /\ variant = "D"
  /\ Arrive
  /\ LET title == Trim(StringOf(OrEmpty(body.title)))
         stringId == IdToString(ObjectIdOf(NewHex(nextOid)))
         recipe == Doc(StringId(stringId), title,
                       StringOf(OrEmpty(body.description)),
                       splitLines(OrEmpty(body.ingredients)),
                       splitLines(OrEmpty(body.steps)),
                       normCategory(body.category), now)
     IN IF title = <<>>
        THEN Reject("create", <<>>, body, 400, "Title is required")
        ELSE /\ nextOid <= MaxCreates + 1
             /\ recipes' = Append(recipes, recipe)
             /\ nextOid' = nextOid + 1
             /\ last' = Response("create", <<>>, body, 201, "", <<toJSON(recipe)>>,
                                 FALSE, recipes, recipes')
             /\ created' = created \cup {IdToString(recipe._id)}
             /\ UNCHANGED <<inFlight, deleted>>
  /\ UNCHANGED <<variant, now>>

\* PUT /api/recipes/:id: the filter is {_id: id}, the path id as a string
PutRecipe_D(id, body) ==
  /\ variant = "D"
  /\ Arrive
  /\ LET i == FirstMatch(recipes, {StringId(id)})
         after == [recipes EXCEPT ![i] = partialUpdate(@, body)]
     IN IF blankTitleSent(body)
        THEN Reject("update", id, body, 400, "Title cannot be empty")
        ELSE IF i = 0
        THEN Reject("update", id, body, 404, "Recipe not found")
        ELSE /\ recipes' = after
             /\ last' = Response("update", id, body, 200, "",
                                 <<toJSON(after[i])>>, FALSE, recipes, recipes')
             /\ UNCHANGED <<nextOid, inFlight, created, deleted>>
  /\ UNCHANGED <<variant, now>>

\* DELETE /api/recipes/:id
DeleteRecipe_D(id) ==
  /\ variant = "D"
  /\ Arrive
  /\ LET query == buildIdQuery_D(id)
         i == FirstMatch(recipes, query)
     IN IF i = 0
        THEN Reject("delete", id, NoBody, 404, "Recipe not found")
        ELSE /\ recipes' = RemoveAt(recipes, i)
             /\ last' = Response("delete", id, NoBody, 200, "", <<>>, TRUE, recipes, recipes')
             /\ deleted' = deleted \cup {[id |-> id, rid |-> IdToString(recipes[i]._id)]}
             /\ UNCHANGED <<nextOid, inFlight, created>>
  /\ UNCHANGED <<variant, now>>

\* POST /api/recipes/:id/comments: res.json(result.value)
PostComment_D(id, body) ==
  /\ variant = "D"
  /\ Arrive
  /\ LET text == Trim(StringOf(OrEmpty(body.text)))
         query == buildIdQuery_D(id)
         i == FirstMatch(recipes, query)
         after == PushComment(recipes, i, [text |-> text, createdAt |-> now])
     IN IF text = <<>>
        THEN Reject("comment", id, body, 400, "Comment text is required")
        ELSE IF i = 0
        THEN Reject("comment", id, body, 404, "Recipe not found")
        ELSE /\ Len(recipes[i].comments) < MaxComments
             /\ recipes' = after
             /\ last' = Response("comment", id, body, 200, "",
                                 <<toJSON(after[i])>>, FALSE, recipes, recipes')
             /\ UNCHANGED <<nextOid, inFlight, created, deleted>>
  /\ UNCHANGED <<variant, now>>

Next_D ==
  \/ GetRecipes_D
  \/ \E body \in CreateBodies : PostRecipe_D(body)
  \/ \E id \in PathIds, body \in UpdateBodies : PutRecipe_D(id, body)
  \/ \E id \in PathIds : DeleteRecipe_D(id)
  \/ \E id \in PathIds, body \in CommentBodies : PostComment_D(id, body)

Next == Tick \/ Next_A \/ Next_B \/ Next_C \/ Next_D

Spec == Init /\ [][Next]_vars


\* ---------------------------------------------------------------- the text functions on their own
\* The characters free text is made of.
Alphabet == {"a", "b", " ", "\n", "\r"}

\* Every text of at most n characters.
Texts(n) == UNION { [1..k -> Alphabet] : k \in 0..n }

\* Lines a stored list can hold: as splitLines leaves them, and (in records
\* written by other means) padded, empty, or holding a newline.
StoredLines ==
  { <<"a">>, <<"b">>, <<"a", " ", "b">>, <<" ", "a">>, <<>>, <<"a", "\n", "b">> }

\* Every list of at most n stored lines.
LineLists(n) == UNION { [1..k -> StoredLines] : k \in 0..n }

\* The text with every "\n" sent as "\r\n".
RECURSIVE WithCRLF(_)
WithCRLF(s) ==
  IF s = <<>> THEN <<>>
  ELSE IF Head(s) = "\n" THEN <<"\r", "\n">> \o WithCRLF(Tail(s))
  ELSE <<Head(s)>> \o WithCRLF(Tail(s))

\* formData.get(name) for a multi-line field (a textarea of index.html) whose
\* value was set to the text: the text, with line ends as "\n" or as "\r\n".
formDataGet(s) == {s, WithCRLF(s)}

InitText ==
  /\ input \in {Undefined} \cup { Str(s) : s \in Texts(MaxTextLen) }
                 \cup { Arr(a) : a \in LineLists(MaxLines) }
  /\ output = <<>>
  /\ applied = "none"
  /\ NoClient
  /\ variant = "B"
  /\ recipes = <<>>
  /\ now = 1
  /\ nextOid = 2
  /\ served = 0
  /\ inFlight = <<>>
  /\ last = [op |-> "none", id |-> <<>>, body |-> NoBody, status |-> 0, error |-> "",
             out |-> <<>>, ok |-> FALSE, pre |-> <<>>, post |-> <<>>, del |-> {},
             again |-> <<>>]
  /\ created = {}
  /\ deleted = {}
  /\ uri = TRUE
  /\ phase = "listening"
  /\ connected = TRUE
  /\ failedCalls = 0

\* The server's splitLines is applied to free text or to an absent value.
ApplySplitLines ==
  /\ applied = "none"
  /\ input.t # "array"
  /\ output' = splitLines(input)
  /\ applied' = "splitLines"
  /\ UNCHANGED <<input, apiVars, processVars, clientVars>>

\* The client's ensureArrayMaybeLines is applied.
ApplyEnsureArrayMaybeLines ==
  /\ applied = "none"
  /\ output' = ensureArrayMaybeLines(input)
  /\ applied' = "ensureArrayMaybeLines"
  /\ UNCHANGED <<input, apiVars, processVars, clientVars>>

\* A recipe whose ingredients are the list is put into the form by
\* startEditMode and saved untouched: the submit handler sends the field's
\* text, and the PUT handler stores splitLines of it.
EditAndSave ==
  /\ applied = "none"
  /\ input.t = "array"
  /\ LET recipe == [LegacyDoc(StringId(NewHex(0))) EXCEPT !.ingredients = input.a]
         field == JoinNewline(ensureArrayMaybeLines(Arr(recipe.ingredients)))
     IN \E sent \in formDataGet(field) :
          output' = partialUpdate(recipe, [EmptyBody EXCEPT !.ingredients = Str(sent)]).ingredients
  /\ applied' = "edit"
  /\ UNCHANGED <<input, apiVars, processVars, clientVars>>

NextText ==
  \/ ApplySplitLines
  \/ ApplyEnsureArrayMaybeLines
  \/ EditAndSave

SpecText == InitText /\ [][NextText]_vars


\* ---------------------------------------------------------------- the page: src/Public/app.js
\* What index.js (second variant) does with the request of a fetch on the
\* collection: the collection after it, the status and the recipes answered.
serve_B(coll, f) ==
  LET none == [coll |-> coll, status |-> 404, out |-> <<>>]
      docs == SortCreatedAtDesc(coll)
      title == Trim(StringOf(OrEmpty(f.body.title)))
      recipe == Doc(StringId(IdToString(ObjectIdOf(NewHex(nextOid)))), title,
                    StringOf(OrEmpty(f.body.description)),
                    splitLines(OrEmpty(f.body.ingredients)),
                    splitLines(OrEmpty(f.body.steps)),
                    normCategory(f.body.category), now)
      i == FirstMatch(coll, idQueryTernary_B(f.id))
      j == FirstMatch(coll, buildIdQuery_B(f.id))
      text == Trim(StringOf(OrEmpty(f.body.text)))
  IN CASE f.call = "list" ->
            [coll |-> coll, status |-> 200,
             out |-> [n \in 1..Len(docs) |-> withStringId(docs[n])]]
       [] f.call = "save" /\ f.method = "POST" ->
            IF title = <<>> THEN [none EXCEPT !.status = 400]
            ELSE [coll |-> Append(coll, recipe), status |-> 201, out |-> <<recipe>>]
       [] f.call = "save" /\ f.method = "PUT" ->
            IF blankTitleSent(f.body) THEN [none EXCEPT !.status = 400]
            ELSE IF i = 0 THEN none
            ELSE [coll |-> [coll EXCEPT ![i] = partialUpdate(@, f.body)],
                  status |-> 200, out |-> <<>>]
       [] f.call = "delete" ->
            IF i = 0 THEN none
            ELSE [coll |-> RemoveAt(coll, i), status |-> 200, out |-> <<>>]
       [] f.call = "comment" ->
            IF text = <<>> THEN [none EXCEPT !.status = 400]
            ELSE IF j = 0 THEN none
            ELSE [coll |-> PushComment(coll, j, [text |-> text, createdAt |-> now]),
                  status |-> 200, out |-> <<>>]

\* res.ok of a fetch that has settled: a response came, with a 2xx status.
ResOk(f) == f.state = "answered" /\ f.status >= 200 /\ f.status < 300

\* What the user has typed into the recipe form when it is submitted: a
\* recipe with a title, or one without.
FormData ==
  { Body(Str(<<"c">>), Str(<<>>), Str(<<"a">>), Str(<<>>), Str(Uncategorized), Undefined),
    Body(Str(<<>>), Str(<<>>), Str(<<>>), Str(<<>>), Str(Uncategorized), Undefined) }

\* What the user has typed into the comment box of a card.
CommentTexts == { <<"a", " ">> }

\* The submit always posts.
submitMethod_AlwaysPost(id) == "POST"

\* const method = editingId ? "PUT" : "POST"
submitMethod(id) == IF Truthy(id) THEN "PUT" ELSE "POST"

\* const url = editingId ? `/api/recipes/${editingId}` : "/api/recipes" (the id in it)
submitUrlId(id) == IF Truthy(id) THEN id.s ELSE <<>>

\* The cards are appended to what the container holds.
showRecipes_NoClear(shown, list) ==
  IF list = <<>> THEN Container("empty", <<>>) ELSE Container("cards", shown.cards \o list)

\* loadRecipes after res.json(): the empty-list notice, or innerHTML = "" and
\* one card for each recipe, in order.
showRecipes(shown, list) ==
  IF list = <<>> THEN Container("empty", <<>>) ELSE Container("cards", list)

\* The fetches without the one at k.
Settled(k) == RemoveAt(fetches, k)

\* loadRecipes() up to its await fetch, called while the fetches are pending.
loadRecipes(pending) ==
  /\ recipesContainer' = Container("loading", <<>>)
  /\ fetches' = Append(pending, Fetch("list", "GET", <<>>, NoBody))

\* The fetch at k settles.
Deliver(k) ==
  delivered' = [n |-> delivered.n + 1, f |-> fetches[k],
                load |-> IF fetches[k].call = "list" THEN fetches[k] ELSE delivered.load,
                before |-> IF fetches[k].call = "list" THEN delivered.load ELSE delivered.before,
                overlap |-> \/ delivered.overlap
                            \/ /\ fetches[k].call = "list"
                               /\ \E j \in 1..Len(fetches) : j # k /\ fetches[j].call = "list"]

\* The user clicks or submits something.
Click ==
  /\ clicks < MaxClicks
  /\ clicks' = clicks + 1

\* The server answers the fetch at k.
ServerAnswers(k) ==
  /\ k \in 1..Len(fetches)
  /\ fetches[k].state = "sent"
  /\ LET r == serve_B(recipes, fetches[k])
     IN /\ Len(r.coll) > Len(recipes) => nextOid <= MaxCreates + 1
        /\ recipes' = r.coll
        /\ nextOid' = IF Len(r.coll) > Len(recipes) THEN nextOid + 1 ELSE nextOid
        /\ fetches' = [fetches EXCEPT ![k].state = "answered",
                                      ![k].status = r.status, ![k].out = r.out]
  /\ UNCHANGED <<variant, now, served, inFlight, last, created, deleted>>
  /\ UNCHANGED <<processVars, textVars>>
  /\ UNCHANGED <<editingId, currentRecipes, recipesContainer, delivered, clicks>>

\* The request or its response is lost: the fetch will reject.
NetworkFails(k) ==
  /\ k \in 1..Len(fetches)
  /\ fetches[k].state \in {"sent", "answered"}
  /\ fetches' = [fetches EXCEPT ![k].state = "lost"]
  /\ UNCHANGED <<apiVars, processVars, textVars>>
  /\ UNCHANGED <<editingId, currentRecipes, recipesContainer, delivered, clicks>>

\* loadRecipes() from the settling of its fetch on (lines 57-73)
LoadSettles(k) ==
  /\ k \in 1..Len(fetches)
  /\ fetches[k].call = "list"
  /\ fetches[k].state # "sent"
  /\ Deliver(k)
  /\ IF ResOk(fetches[k])
     THEN /\ currentRecipes' = fetches[k].out
          /\ recipesContainer' = showRecipes(recipesContainer, fetches[k].out)
     ELSE /\ recipesContainer' = Container("error", <<>>)
          /\ UNCHANGED currentRecipes
  /\ fetches' = Settled(k)
  /\ UNCHANGED <<apiVars, processVars, textVars>>
  /\ UNCHANGED <<editingId, clicks>>

\* editBtn click: startEditMode(recipe) of the card at c
EditClick(c) ==
  /\ c \in 1..Len(recipesContainer.cards)
  /\ Click
  /\ editingId' = Str(recipesContainer.cards[c]._id.v)
  /\ UNCHANGED <<apiVars, processVars, textVars>>
  /\ UNCHANGED <<currentRecipes, recipesContainer, fetches, delivered>>

\* deleteBtn click of the card at c, confirmed, up to its await fetch
DeleteClick(c) ==
  /\ c \in 1..Len(recipesContainer.cards)
  /\ Click
  /\ fetches' = Append(fetches, Fetch("delete", "DELETE", recipesContainer.cards[c]._id.v, NoBody))
  /\ UNCHANGED <<apiVars, processVars, textVars>>
  /\ UNCHANGED <<editingId, currentRecipes, recipesContainer, delivered>>

\* commentForm submit of the card at c with a text, up to its await fetch
CommentSubmit(c, text) ==
  /\ c \in 1..Len(recipesContainer.cards)
  /\ Trim(text) # <<>>
  /\ Click
  /\ fetches' = Append(fetches, Fetch("comment", "POST", recipesContainer.cards[c]._id.v,
                                       [EmptyBody EXCEPT !.text = Str(Trim(text))]))
  /\ UNCHANGED <<apiVars, processVars, textVars>>
  /\ UNCHANGED <<editingId, currentRecipes, recipesContainer, delivered>>

\* deleteBtn click and commentForm submit from the settling of the fetch on:
\* res.ok reloads the list, anything else alerts.
ClickSettles(k) ==
  /\ k \in 1..Len(fetches)
  /\ fetches[k].call \in {"delete", "comment"}
  /\ fetches[k].state # "sent"
  /\ Deliver(k)
  /\ IF ResOk(fetches[k])
     THEN loadRecipes(Settled(k))
     ELSE /\ fetches' = Settled(k)
          /\ UNCHANGED recipesContainer
  /\ UNCHANGED <<apiVars, processVars, textVars>>
  /\ UNCHANGED <<editingId, currentRecipes, clicks>>

\* form submit, up to its await fetch
FormSubmit(payload) ==
  /\ Click
  /\ fetches' = Append(fetches, Fetch("save", submitMethod(editingId),
                                       submitUrlId(editingId), payload))
  /\ UNCHANGED <<apiVars, processVars, textVars>>
  /\ UNCHANGED <<editingId, currentRecipes, recipesContainer, delivered>>

\* form submit from the settling of its fetch on: res.ok resets the form and
\* editingId and reloads the list, anything else alerts.
SaveSettles(k) ==
  /\ k \in 1..Len(fetches)
  /\ fetches[k].call = "save"
  /\ fetches[k].state # "sent"
  /\ Deliver(k)
  /\ IF ResOk(fetches[k])
     THEN /\ editingId' = Null
          /\ loadRecipes(Settled(k))
     ELSE /\ fetches' = Settled(k)
          /\ UNCHANGED <<editingId, recipesContainer>>
  /\ UNCHANGED <<apiVars, processVars, textVars>>
  /\ UNCHANGED <<currentRecipes, clicks>>

\* The page has run app.js to its end: checkDbHealth(); loadRecipes();
InitClient ==
  /\ variant = "B"
  /\ recipes \in { <<>>,
                   <<LegacyDoc(ObjectIdOf(NewHex(0))), LegacyDoc(StringId(NewHex(1)))>> }
  /\ now = 1
  /\ nextOid = 2
  /\ served = 0
  /\ inFlight = <<>>
  /\ last = [op |-> "none", id |-> <<>>, body |-> NoBody, status |-> 0, error |-> "",
             out |-> <<>>, ok |-> FALSE, pre |-> <<>>, post |-> <<>>, del |-> {},
             again |-> <<>>]
  /\ created = {}
  /\ deleted = {}
  /\ uri = TRUE
  /\ phase = "listening"
  /\ connected = TRUE
  /\ failedCalls = 0
  /\ NoText
  /\ editingId = Null
  /\ currentRecipes = <<>>
  /\ recipesContainer = Container("loading", <<>>)
  /\ fetches = <<Fetch("list", "GET", <<>>, NoBody)>>
  /\ delivered = NoneDelivered
  /\ clicks = 0

NextClient ==
  \/ \E k \in 1..MaxClicks + 1 : ServerAnswers(k)
  \/ \E k \in 1..MaxClicks + 1 : NetworkFails(k)
  \/ \E k \in 1..MaxClicks + 1 : LoadSettles(k)
  \/ \E c \in 1..MaxCreates + 2 : EditClick(c)
  \/ \E c \in 1..MaxCreates + 2 : DeleteClick(c)
  \/ \E c \in 1..MaxCreates + 2, text \in CommentTexts : CommentSubmit(c, text)
  \/ \E k \in 1..MaxClicks + 1 : ClickSettles(k)
  \/ \E payload \in FormData : FormSubmit(payload)
  \/ \E k \in 1..MaxClicks + 1 : SaveSettles(k)

SpecClient == InitClient /\ [][NextClient]_vars

\* ---------------------------------------------------------------- the server process: src/index.js 233-497
\* if (!uri) { console.error(...); process.exit(1); }
UriMissing ==
  /\ phase = "start"
  /\ ~uri
  /\ phase' = "exited"
  /\ UNCHANGED <<uri, connected, failedCalls>>
  /\ UNCHANGED <<apiVars, asideVars>>

\* startServer(): new MongoClient(uri), up to await client.connect()
StartServer ==
  /\ phase = "start"
  /\ uri
  /\ phase' = "connecting"
  /\ UNCHANGED <<uri, connected, failedCalls>>
  /\ UNCHANGED <<apiVars, asideVars>>

\* client.connect() resolves: the routes are registered and app.listen(PORT)
\* is called, in the same turn.
ConnectResolves ==
  /\ phase = "connecting"
  /\ connected' = TRUE
  /\ phase' = "listening"
  /\ UNCHANGED <<uri, failedCalls>>
  /\ UNCHANGED <<apiVars, asideVars>>

\* The catch logs the error and goes on to listen.
ConnectFails_Listens ==
  /\ phase = "connecting"
  /\ phase' = "listening"
  /\ UNCHANGED <<uri, connected, failedCalls>>
  /\ UNCHANGED <<apiVars, asideVars>>

\* client.connect() rejects: catch (err) { console.error(...); process.exit(1); }
ConnectFails ==
  /\ phase = "connecting"
  /\ phase' = "exited"
  /\ UNCHANGED <<uri, connected, failedCalls>>
  /\ UNCHANGED <<apiVars, asideVars>>

\* A request arrives, and its store call throws.
ArriveThrows ==
  /\ phase = "listening"
  /\ served < MaxRequests
  /\ served' = served + 1
  /\ failedCalls' = failedCalls + 1
  /\ UNCHANGED <<uri, phase, connected>>
  /\ UNCHANGED asideVars

\* What a single-document store call that throws can leave in the collection:
\* the write did not happen, or it happened and the answer was lost.
StoreCallThrows(pre, written) == {pre, written}

\* The catch makes the call a second time before it answers: a comment the
\* first attempt has written is written again.
Catch_Retries(op, id, body, error, after) ==
  LET i == CHOOSE k \in 1..Len(after) : after[k] # recipes[k]
      again == IF op = "comment" /\ after # recipes
               THEN [after EXCEPT ![i].comments = Append(@, @[Len(@)])]
               ELSE after
  IN /\ recipes' = again
     /\ last' = Response(op, id, body, 500, error, <<>>, FALSE, recipes, again)
     /\ UNCHANGED <<inFlight, created, deleted>>

\* catch (err) { console.error(...); res.status(500).json({ error }); }
Catch(op, id, body, error, after) ==
  /\ recipes' = after
  /\ last' = Response(op, id, body, 500, error, <<>>, FALSE, recipes, after)
  /\ UNCHANGED <<inFlight, created, deleted>>

\* GET /api/recipes, find().sort().toArray() throws
GetRecipes_B_Throws ==
  /\ variant = "B"
  /\ ArriveThrows
  /\ \E after \in StoreCallThrows(recipes, recipes) :
       Catch("list", <<>>, NoBody, "Failed to fetch recipes", after)
  /\ UNCHANGED <<variant, now, nextOid>>

\* POST /api/recipes, insertOne throws
PostRecipe_B_Throws(body) ==
  /\ variant = "B"
  /\ ArriveThrows
  /\ LET title == Trim(StringOf(OrEmpty(body.title)))
         id == IdToString(ObjectIdOf(NewHex(nextOid)))
         recipe == Doc(StringId(id), title,
                       StringOf(OrEmpty(body.description)),
                       splitLines(OrEmpty(body.ingredients)),
                       splitLines(OrEmpty(body.steps)),
                       normCategory(body.category), now)
     IN /\ title # <<>>
        /\ nextOid <= MaxCreates + 1
        /\ nextOid' = nextOid + 1
        /\ \E after \in StoreCallThrows(recipes, Append(recipes, recipe)) :
             Catch("create", <<>>, body, "Server error while saving recipe", after)
  /\ UNCHANGED <<variant, now>>

\* PUT /api/recipes/:id, findOneAndUpdate throws
PutRecipe_B_Throws(id, body) ==
  /\ variant = "B"
  /\ ArriveThrows
  /\ LET i == FirstMatch(recipes, idQueryTernary_B(id))
         written == IF i = 0 THEN recipes
                    ELSE [recipes EXCEPT ![i] = partialUpdate(@, body)]
     IN /\ ~blankTitleSent(body)
        /\ \E after \in StoreCallThrows(recipes, written) :
             Catch("update", id, body, "Failed to update recipe", after)
  /\ UNCHANGED <<variant, now, nextOid>>

\* DELETE /api/recipes/:id, deleteOne throws
DeleteRecipe_B_Throws(id) ==
  /\ variant = "B"
  /\ ArriveThrows
  /\ LET i == FirstMatch(recipes, idQueryTernary_B(id))
         written == IF i = 0 THEN recipes ELSE RemoveAt(recipes, i)
     IN \E after \in StoreCallThrows(recipes, written) :
          Catch("delete", id, NoBody, "Failed to delete recipe", after)
  /\ UNCHANGED <<variant, now, nextOid>>

\* POST /api/recipes/:id/comments, findOneAndUpdate throws
PostComment_B_Throws(id, body) ==
  /\ variant = "B"
  /\ ArriveThrows
  /\ LET text == Trim(StringOf(OrEmpty(body.text)))
         i == FirstMatch(recipes, buildIdQuery_B(id))
         written == IF i = 0 THEN recipes
                    ELSE PushComment(recipes, i, [text |-> text, createdAt |-> now])
     IN /\ text # <<>>
        /\ i # 0 => Len(recipes[i].comments) < MaxComments
        /\ \E after \in StoreCallThrows(recipes, written) :
             Catch("comment", id, body, "Failed to add comment", after)
  /\ UNCHANGED <<variant, now, nextOid>>

Throws_B ==
  \/ GetRecipes_B_Throws
  \/ \E body \in CreateBodies : PostRecipe_B_Throws(body)
  \/ \E id \in PathIds, body \in UpdateBodies : PutRecipe_B_Throws(id, body)
  \/ \E id \in PathIds : DeleteRecipe_B_Throws(id)
  \/ \E id \in PathIds, body \in CommentBodies : PostComment_B_Throws(id, body)

\* The process of variant B from the moment node runs index.js.
InitProcess ==
  /\ variant = "B"
  /\ recipes \in { <<>>,
                   <<LegacyDoc(ObjectIdOf(NewHex(0))), LegacyDoc(StringId(NewHex(1)))>> }
  /\ now = 1
  /\ nextOid = 2
  /\ served = 0
  /\ inFlight = <<>>
  /\ last = [op |-> "none", id |-> <<>>, body |-> NoBody, status |-> 0, error |-> "",
             out |-> <<>>, ok |-> FALSE, pre |-> <<>>, post |-> <<>>, del |-> {},
             again |-> <<>>]
  /\ created = {}
  /\ deleted = {}
  /\ uri \in BOOLEAN
  /\ phase = "start"
  /\ connected = FALSE
  /\ failedCalls = 0
  /\ NoText
  /\ NoClient

NextProcess ==
  \/ Tick
  \/ UriMissing
  \/ StartServer
  \/ ConnectResolves
  \/ ConnectFails
  \/ Next_B
  \/ Throws_B

SpecProcess == InitProcess /\ [][NextProcess]_vars

\* ================================================================ properties
\* The three routes that take a recipe id in the path.
IdOps == {"update", "delete", "comment"}

\* The collection holds a record whose id, as list and create send it, is idString.
Holds(coll, idString) == \E i \in 1..Len(coll) : IdToString(coll[i]._id) = idString

\* That record.
RecordOf(coll, idString) ==
  coll[CHOOSE i \in 1..Len(coll) : IdToString(coll[i]._id) = idString]

\* The lower-case spelling of a path id.
Canonical(id) == [i \in 1..Len(id) |-> LowerChar(id[i])]

\* A 400 that validation of the body gives before the store is consulted.
BodyRejected ==
  /\ last.status = 400
  /\ last.error \in {"Title is required", "Title cannot be empty", "Comment text is required"}

\* The five editable fields of a record and everything else but updatedAt.
SameButUpdatedAt(d, e) == [d EXCEPT !.updatedAt = 0] = [e EXCEPT !.updatedAt = 0]

\* ---------------------------------------------------------------- C1
\* C1: the id a create response carries is the id list returns for the new
\* record, and an update or delete called with an id that create returned,
\* while the record is in the collection, does not answer 404.
C1_CreatedIdRoundTrip ==
  /\ (last.op = "create" /\ last.status = 201) =>
       /\ Len(last.post) = Len(last.pre) + 1
       /\ IdToString(last.post[Len(last.post)]._id) = IdToString(last.out[1]._id)
  /\ (last.op \in {"update", "delete"} /\ last.id \in created /\ Holds(last.pre, last.id)) =>
       last.status # 404

\* ---------------------------------------------------------------- C2
\* C2: update, delete and add-comment called with the string form of a stored
\* record's _id (ObjectId or string) match that record: they do not answer 404.
C2_LegacyIdCompatibility ==
  (last.op \in IdOps /\ Holds(last.pre, last.id)) => last.status # 404

\* ---------------------------------------------------------------- C3
\* C3: an update of an existing recipe whose body sends no blank title answers
\* 200 with a recipe in which exactly the sent fields carry their normalized
\* values and every other field its stored value.
C3_PartialReplacement ==
  (/\ last.op = "update"
   /\ Holds(last.pre, last.id)
   /\ ~(last.body.title # Undefined /\ Trim(last.body.title.s) = <<>>)) =>
     LET old == RecordOf(last.pre, last.id)
         b == last.body
     IN /\ last.status = 200
        /\ Len(last.out) = 1
        /\ last.out[1].title = IF b.title # Undefined THEN Trim(b.title.s) ELSE old.title
        /\ last.out[1].description =
             IF b.description # Undefined THEN b.description.s ELSE old.description
        /\ last.out[1].ingredients =
             IF b.ingredients # Undefined THEN splitLines(b.ingredients) ELSE old.ingredients
        /\ last.out[1].steps = IF b.steps # Undefined THEN splitLines(b.steps) ELSE old.steps
        /\ last.out[1].category =
             IF b.category = Undefined THEN old.category
             ELSE IF Trim(b.category.s) = <<>> THEN Uncategorized ELSE Trim(b.category.s)
        /\ last.out[1].comments = old.comments
        /\ last.out[1].createdAt = old.createdAt

\* ---------------------------------------------------------------- C4
\* C4: an update with an empty object as body, of a recipe that create made,
\* answers 200 with that recipe as stored (updatedAt aside) and leaves the
\* stored record as it was (updatedAt aside).
C4_NoOpUpdate ==
  (/\ last.op = "update"
   /\ last.body = EmptyBody
   /\ last.id \in created
   /\ Holds(last.pre, last.id)) =>
     /\ last.status = 200
     /\ Len(last.out) = 1
     /\ SameButUpdatedAt(last.out[1], withStringId(RecordOf(last.pre, last.id)))
     /\ Holds(last.post, last.id)
     /\ SameButUpdatedAt(RecordOf(last.post, last.id), RecordOf(last.pre, last.id))

\* ---------------------------------------------------------------- C5
\* C5: update, delete and add-comment with a malformed path id answer 400 and
\* leave the collection unchanged.
C5_MalformedIdIs400 ==
  (last.op \in IdOps /\ ~ObjectIdIsValid(last.id)) =>
    (last.status = 400 /\ last.post = last.pre)

\* ---------------------------------------------------------------- C6
\* The path ids, and the ids of the records, of the deletions answered before
\* the last request arrived.
DeletedPathIds == {d.id : d \in last.del}
DeletedRecordIds == {d.rid : d \in last.del}

\* C6 as stated: once DELETE of an id has answered 200, every later update,
\* delete and add-comment against that id answers 404 and no later list
\* carries the deleted recipe.
C6_DeleteIsFinal_AsStated ==
  /\ (last.op \in IdOps /\ last.id \in DeletedPathIds) => last.status = 404
  /\ last.op = "list" =>
       \A i \in 1..Len(last.out) : IdToString(last.out[i]._id) \notin DeletedRecordIds

\* C6 amended: once DELETE of an id has answered 200, no later list carries
\* the deleted recipe and every later update, delete and add-comment against
\* that id answers 404, or 400 when validation rejects its body before the
\* store is consulted; none of them changes the collection.
C6_DeleteIsFinal ==
  /\ (last.op \in IdOps /\ last.id \in DeletedPathIds) =>
       /\ last.status = 404 \/ BodyRejected
       /\ last.post = last.pre
       /\ ~Holds(last.post, last.id)
  /\ last.op = "list" =>
       \A i \in 1..Len(last.out) : IdToString(last.out[i]._id) \notin DeletedRecordIds

\* A request with a valid body against a deleted id has been answered, with
\* another recipe still in the collection.
C6_Witness ==
  /\ last.op \in IdOps
  /\ last.id \in DeletedPathIds
  /\ last.status = 404
  /\ last.pre # <<>>

\* ---------------------------------------------------------------- C7
\* The body sends a title that is blank after trimming.
SendsBlankTitle(b) == b.title.t = "string" /\ Trim(b.title.s) = <<>>

\* C7: an update whose body sends a blank title answers 400 and leaves the
\* collection, the title of the addressed recipe included, as it was.
C7_BlankTitleUpdateRejected ==
  (last.op = "update" /\ SendsBlankTitle(last.body)) =>
    /\ last.status = 400
    /\ last.post = last.pre

\* An update with a blank title, of a recipe that is in the collection, was rejected.
C7_Witness ==
  /\ last.op = "update"
  /\ SendsBlankTitle(last.body)
  /\ last.body.description # Undefined
  /\ Holds(last.pre, last.id)
  /\ RecordOf(last.pre, last.id)._id.k = "ObjectId"
  /\ last.status = 400
  /\ last.error = "Title cannot be empty"

\* ---------------------------------------------------------------- C8
NoNewline(line) == \A i \in 1..Len(line) : line[i] # "\n"

Lines(ss) == \A i \in 1..Len(ss) : ss[i] # <<>> /\ NoNewline(ss[i])

\* C8: a create whose title is non-blank after trimming answers 201 with a
\* recipe whose id is a non-empty string, whose title is the trimmed input,
\* whose comments are empty and whose ingredients and steps are sequences of
\* lines (empty when the field was not sent).
C8_CreateAnswersRecipe ==
  (/\ last.op = "create"
   /\ last.body.title.t = "string"
   /\ Trim(last.body.title.s) # <<>>) =>
     /\ last.status = 201
     /\ Len(last.out) = 1
     /\ last.out[1]._id.k = "string"
     /\ last.out[1]._id.v # <<>>
     /\ last.out[1].title = Trim(last.body.title.s)
     /\ last.out[1].comments = <<>>
     /\ Lines(last.out[1].ingredients)
     /\ Lines(last.out[1].steps)
     /\ last.body.ingredients = Undefined => last.out[1].ingredients = <<>>
     /\ last.body.steps = Undefined => last.out[1].steps = <<>>

\* A create with multi-line ingredients and no steps was answered 201.
C8_Witness ==
  /\ last.op = "create"
  /\ last.status = 201
  /\ ~NoNewline(last.body.ingredients.s)
  /\ last.body.steps = Undefined
  /\ last.body.title.s # Trim(last.body.title.s)

\* ---------------------------------------------------------------- C9
\* C9: a create whose title is absent or blank after trimming answers 400
\* "Title is required" and inserts nothing.
C9_CreateWithoutTitleRejected ==
  (/\ last.op = "create"
   /\ last.body.title = Undefined \/ SendsBlankTitle(last.body)) =>
     /\ last.status = 400
     /\ last.error = "Title is required"
     /\ last.post = last.pre

\* Creates with an absent and with a blank title were rejected.
C9_Witness ==
  /\ last.op = "create"
  /\ SendsBlankTitle(last.body)
  /\ last.status = 400
  /\ last.pre # <<>>

\* ---------------------------------------------------------------- C10
\* No stored record has the path id, in either spelling, as its id.
MatchesNothing(coll, id) == ~Holds(coll, id) /\ ~Holds(coll, Canonical(id))

\* C10 as stated: update, delete and add-comment against a well-formed id
\* that matches no stored recipe answer 404 and leave the collection unchanged.
C10_NotFound_AsStated ==
  (last.op \in IdOps /\ ObjectIdIsValid(last.id) /\ MatchesNothing(last.pre, last.id)) =>
    (last.status = 404 /\ last.error = "Recipe not found" /\ last.post = last.pre)

\* C10 amended: such a request answers 404 "Recipe not found", or 400 when
\* validation rejects its body before the store is consulted, and in both
\* cases leaves the collection unchanged (no upsert).
C10_NotFound ==
  (last.op \in IdOps /\ ObjectIdIsValid(last.id) /\ MatchesNothing(last.pre, last.id)) =>
    /\ (last.status = 404 /\ last.error = "Recipe not found") \/ BodyRejected
    /\ last.post = last.pre

\* An update with a valid body against a well-formed id nothing matches was
\* answered 404 while the collection held a recipe.
C10_Witness ==
  /\ last.op = "update"
  /\ ObjectIdIsValid(last.id)
  /\ MatchesNothing(last.pre, last.id)
  /\ last.body.description # Undefined
  /\ last.pre # <<>>
  /\ last.status = 404

\* ---------------------------------------------------------------- C11
\* Every character of the text is white space (the empty text included).
Blank(s) == \A i \in 1..Len(s) : s[i] \in WhiteSpace

\* The text without the white space at its ends, found by position: from the
\* first to the last character that is not white space.
Trimmed(s) ==
  IF Blank(s) THEN <<>>
  ELSE LET first == CHOOSE i \in 1..Len(s) :
                      s[i] \notin WhiteSpace /\ \A j \in 1..(i - 1) : s[j] \in WhiteSpace
           final == CHOOSE i \in 1..Len(s) :
                      s[i] \notin WhiteSpace /\ \A j \in (i + 1)..Len(s) : s[j] \in WhiteSpace
       IN SubSeq(s, first, final)

\* A record with its comments left out.
WithoutComments(d) == [d EXCEPT !.comments = <<>>]

\* C11: add-comment with a text that is not blank, against the id of a stored
\* recipe, answers 200 with that recipe: its comments are the stored comments
\* followed by one comment whose text is the trimmed input, every other field
\* is as stored, and the stored record has become the recipe answered.
C11_CommentAppended ==
  (/\ last.op = "comment"
   /\ last.body.text.t = "string"
   /\ ~Blank(last.body.text.s)
   /\ Holds(last.pre, last.id)) =>
     LET old == RecordOf(last.pre, last.id)
     IN /\ last.status = 200
        /\ Len(last.out) = 1
        /\ Len(last.out[1].comments) = Len(old.comments) + 1
        /\ SubSeq(last.out[1].comments, 1, Len(old.comments)) = old.comments
        /\ last.out[1].comments[Len(old.comments) + 1].text = Trimmed(last.body.text.s)
        /\ WithoutComments(last.out[1]) = WithoutComments(withStringId(old))
        /\ Holds(last.post, last.id)
        /\ withStringId(RecordOf(last.post, last.id)) = last.out[1]

\* ---------------------------------------------------------------- C12
\* C12: add-comment with a text that is absent or blank answers 400 and leaves
\* the collection, the comments of every recipe included, as it was, whether
\* or not the path id matches a recipe.
C12_BlankCommentRejected ==
  (/\ last.op = "comment"
   /\ last.body.text = Undefined \/ (last.body.text.t = "string" /\ Blank(last.body.text.s))) =>
     /\ last.status = 400
     /\ last.post = last.pre
     /\ \A i \in 1..Len(last.pre) : last.post[i].comments = last.pre[i].comments

\* A comment of white space only, against the id of a stored recipe, was rejected.
C12_Witness ==
  /\ last.op = "comment"
  /\ last.body.text.t = "string"
  /\ last.body.text.s # <<>>
  /\ Blank(last.body.text.s)
  /\ Holds(last.pre, last.id)
  /\ last.status = 400
  /\ last.error = "Comment text is required"

\* ---------------------------------------------------------------- C13
IsPrefix(a, b) == Len(a) <= Len(b) /\ SubSeq(b, 1, Len(a)) = a

\* The step makes the store call of an update that found its record: updateOne
\* in variant A, findOneAndUpdate (answered in the same step) in the others.
UpdateStoreStep ==
  IF variant = "A"
  THEN Len(inFlight') > Len(inFlight)
  ELSE served' # served /\ last'.op = "update" /\ last'.status = 200

\* The body of the update that makes its store call in the step.
StepBody == IF variant = "A" THEN inFlight'[Len(inFlight')].body ELSE last'.body

\* Every record that is in the collection before and after the step has its
\* earlier comments as a prefix of its later ones.
AppendOnlyStep ==
  \A i \in 1..Len(recipes), j \in 1..Len(recipes') :
    recipes'[j]._id = recipes[i]._id => IsPrefix(recipes[i].comments, recipes'[j].comments)

\* C13: comments are append-only: in every step of every behaviour a recipe
\* that stays in the collection keeps its earlier comments as a prefix of its
\* comments, and the store call of an update leaves the comments of every
\* recipe exactly as they were, also when its body carries a comments field.
C13_CommentsAppendOnly ==
  [][/\ AppendOnlyStep
     /\ UpdateStoreStep =>
          /\ Len(recipes') = Len(recipes)
          /\ \A i \in 1..Len(recipes) : recipes'[i].comments = recipes[i].comments]_vars

\* An update whose body carries a comments field was answered 200 for a
\* recipe that has a comment.
C13_Witness ==
  /\ last.op = "update"
  /\ last.body.comments # Undefined
  /\ last.status = 200
  /\ Holds(last.pre, last.id)
  /\ RecordOf(last.pre, last.id).comments # <<>>
  /\ Holds(last.post, last.id)
  /\ RecordOf(last.post, last.id).comments = RecordOf(last.pre, last.id).comments

\* ---------------------------------------------------------------- C14
\* C14: identity and creation time are immutable: in every step that removes
\* no record (create, update, add-comment, list), every stored recipe keeps
\* its _id, in value and in representation, and its createdAt.
C14_IdentityImmutable ==
  [][Len(recipes') >= Len(recipes) =>
       \A i \in 1..Len(recipes) :
         /\ recipes'[i]._id = recipes[i]._id
         /\ recipes'[i].createdAt = recipes[i].createdAt]_vars

\* An update that changed a recipe was answered after the clock had moved on
\* from the recipe's creation time.
C14_Witness ==
  /\ last.op = "update"
  /\ last.status = 200
  /\ Holds(last.pre, last.id)
  /\ Holds(last.post, last.id)
  /\ RecordOf(last.post, last.id).title # RecordOf(last.pre, last.id).title
  /\ RecordOf(last.post, last.id)._id = RecordOf(last.pre, last.id)._id
  /\ RecordOf(last.post, last.id).createdAt < now

\* ---------------------------------------------------------------- C16
\* The category sent is absent, empty, or white space only.
NoCategory(b) == b.category = Undefined \/ (b.category.t = "string" /\ Blank(b.category.s))

\* The step is a create that inserts its recipe (and answers 201 in the same step).
CreateStoreStep == Len(recipes') = Len(recipes) + 1 /\ last'.op = "create" /\ last'.status = 201

\* Every stored recipe has a category that is not empty.
CategoryPresent == \A i \in 1..Len(recipes) : recipes[i].category # <<>>

\* A create that stores a recipe for a body without category stores
\* "Uncategorized"; so does the store call of an update whose body sends an
\* empty or blank category (the partial update of variants B and C leaves the
\* stored category alone when the body sends none), in the record it changes.
CategoryStep ==
  /\ (CreateStoreStep /\ NoCategory(last'.body)) =>
       recipes'[Len(recipes')].category = Uncategorized
  /\ (UpdateStoreStep /\ StepBody.category # Undefined /\ NoCategory(StepBody)) =>
       \A i \in 1..Len(recipes) :
         recipes[i].category # Uncategorized => recipes'[i].category \in {recipes[i].category, Uncategorized}
  /\ (UpdateStoreStep /\ StepBody.category # Undefined /\ NoCategory(StepBody)) =>
       \E i \in 1..Len(recipes) :
         /\ recipes'[i].category = Uncategorized
         /\ \A j \in 1..Len(recipes) : j # i => recipes'[j] = recipes[j]

\* C16: in every reachable state every stored recipe has a non-empty category,
\* and create and update store "Uncategorized" when the category sent is
\* absent, empty or blank.
C16_CategoryNeverEmpty == []CategoryPresent /\ [][CategoryStep]_vars

\* An update with a blank category was answered 200 for a recipe that had a
\* category of its own, and the recipe now has "Uncategorized".
C16_Witness ==
  /\ last.op = "update"
  /\ last.body.category # Undefined
  /\ NoCategory(last.body)
  /\ last.status = 200
  /\ Holds(last.pre, last.id)
  /\ RecordOf(last.pre, last.id).category # Uncategorized
  /\ RecordOf(last.post, last.id).category = Uncategorized

\* ---------------------------------------------------------------- C17
\* The value stored for a field is the array sent for it, element for element.
PassedThrough(sent, stored) == sent.t = "array" => stored = sent.a

\* C17: when create or update receives ingredients or steps that are already
\* an array of lines, the recipe it stores and answers carries that same
\* array, element for element and in the same order.
C17_ArrayPassThrough ==
  /\ (last.op = "create" /\ last.status = 201) =>
       /\ PassedThrough(last.body.ingredients, last.post[Len(last.post)].ingredients)
       /\ PassedThrough(last.body.steps, last.post[Len(last.post)].steps)
       /\ PassedThrough(last.body.ingredients, last.out[1].ingredients)
       /\ PassedThrough(last.body.steps, last.out[1].steps)
  /\ (last.op = "update" /\ last.status = 200 /\ Len(last.out) = 1) =>
       /\ PassedThrough(last.body.ingredients, last.out[1].ingredients)
       /\ PassedThrough(last.body.steps, last.out[1].steps)

\* ---------------------------------------------------------------- C15
\* C15: every recipe a 200 or 201 response carries (list, create, update,
\* add-comment) has its id as a plain string, equal to the string form of the
\* stored _id, for records stored with a string _id and with an ObjectId _id.
C15_IdIsPlainString ==
  last.status \in {200, 201} =>
    /\ \A i \in 1..Len(last.out) : last.out[i]._id.k = "string"
    /\ last.op = "list" =>
         \A i \in 1..Len(last.post) :
           \E j \in 1..Len(last.out) : last.out[j]._id = StringId(IdToString(last.post[i]._id))

\* The variant that answers documents as stored has listed a collection
\* holding a recipe with an ObjectId _id and one with a string _id.
C15_Witness ==
  /\ variant = "D"
  /\ last.op = "list"
  /\ last.status = 200
  /\ Len(last.out) = Len(last.post)
  /\ \E i, j \in 1..Len(last.post) :
       last.post[i]._id.k = "ObjectId" /\ last.post[j]._id.k = "string"

\* ---------------------------------------------------------------- C18
\* How many elements of the sequence equal x.
Count(seq, x) == Cardinality({j \in 1..Len(seq) : seq[j] = x})

\* C18: list answers every stored recipe exactly once (as many recipes as the
\* collection holds, each stored recipe as often as it is stored), ordered by
\* createdAt descending.
C18_ListAllNewestFirst ==
  last.op = "list" =>
    LET stored == [i \in 1..Len(last.post) |-> withStringId(last.post[i])]
    IN /\ last.status = 200
       /\ Len(last.out) = Len(stored)
       /\ \A i \in 1..Len(stored) : Count(last.out, stored[i]) = Count(stored, stored[i])
       /\ \A i, j \in 1..Len(last.out) :
            i < j => last.out[i].createdAt >= last.out[j].createdAt

\* A list answered two recipes of different age, the one inserted last first.
C18_Witness ==
  /\ last.op = "list"
  /\ Len(last.out) >= 2
  /\ last.out[1].createdAt > last.out[2].createdAt
  /\ last.out[1] = withStringId(last.post[Len(last.post)])

\* ---------------------------------------------------------------- C19
\* The step is a list request being answered (a variant A update that makes
\* its store call, or is rejected, is the other step that can leave last.op
\* = "list": it changes inFlight or last.op).
ListStep == served' # served /\ last'.op = "list" /\ inFlight' = inFlight

\* A list answered right after another list, with the collection as the first
\* one left it, answers the same recipes in the same order.
SameListAgain ==
  (last.op = "list" /\ last.again # <<>> /\ last.again[1].post = last.pre) =>
    last.out = last.again[1].out

C20_AnswersPostUpdateRecord ==
  (last.op = "update" /\ last.status = 200) =>
    LET b == last.body
    IN /\ Len(last.out) = 1
       /\ b.title # Undefined => last.out[1].title = Trimmed(StringOf(b.title))
       /\ b.description # Undefined => last.out[1].description = StringOf(b.description)
       /\ b.ingredients # Undefined => last.out[1].ingredients = splitLines(b.ingredients)
       /\ b.steps # Undefined => last.out[1].steps = splitLines(b.steps)
       /\ b.category # Undefined =>
            last.out[1].category =
              IF Blank(StringOf(b.category)) THEN Uncategorized ELSE Trimmed(StringOf(b.category))

\* ---------------------------------------------------------------- C21
\* The step is an add-comment request that is answered 200.
CommentStep ==
  served' # served /\ inFlight' = inFlight /\ last'.op = "comment" /\ last'.status = 200

\* The comment the request answered in the step has sent.
StepComment == [text |-> Trimmed(last'.body.text.s), createdAt |-> now]

\* The record at i takes the title, description and category the body sends.
TakesSentFields(i, b) ==
  /\ b.title.t = "string" => recipes'[i].title = Trimmed(b.title.s)
  /\ b.description.t = "string" => recipes'[i].description = b.description.s
  /\ (b.category.t = "string" /\ ~Blank(b.category.s)) =>
       recipes'[i].category = Trimmed(b.category.s)

\* C21: single-document atomicity under interleaving: whatever requests have
\* written before it, the store call of an add-comment that is answered 200
\* turns the collection as it is then into the same collection with exactly
\* that comment appended to one recipe (its fields, an interleaved update's
\* included, and its earlier comments stay), and the store call of an update
\* that found its recipe changes that one recipe only, gives it the fields
\* sent and leaves its comments, an interleaved add-comment's included, as
\* they are: no write is lost.
C21_SingleDocumentAtomicity ==
  [][/\ CommentStep =>
          \E i \in 1..Len(recipes) :
            recipes' = [recipes EXCEPT ![i].comments = Append(@, StepComment)]
     /\ UpdateStoreStep =>
          /\ Len(recipes') = Len(recipes)
          /\ \E i \in 1..Len(recipes) :
               /\ \A j \in 1..Len(recipes) : j # i => recipes'[j] = recipes[j]
               /\ recipes'[i].comments = recipes[i].comments
               /\ TakesSentFields(i, StepBody)]_vars

\* Variant A answered an update 200 after an add-comment had written between
\* the update's updateOne and its findOne: the recipe answered and stored has
\* the comment, which it had not when the update arrived, and the new title.
C21_Witness ==
  /\ variant = "A"
  /\ last.op = "update"
  /\ last.status = 200
  /\ last.body.title.t = "string"
  /\ Holds(last.pre, last.id)
  /\ Holds(last.post, last.id)
  /\ RecordOf(last.pre, last.id).comments = <<>>
  /\ Len(RecordOf(last.post, last.id).comments) = 1
  /\ RecordOf(last.post, last.id).title = Trimmed(last.body.title.s)
  /\ RecordOf(last.post, last.id).title # RecordOf(last.pre, last.id).title
  /\ Len(last.out) = 1
  /\ Len(last.out[1].comments) = 1

\* ---------------------------------------------------------------- C22
\* The step is a request one of whose store calls throws.
ThrowStep == failedCalls' # failedCalls

\* The step leaves the collection as it was, or with the whole effect of the
\* request answered in it: one complete recipe added, the fields sent set in
\* one recipe, one recipe removed, or one comment appended to one recipe.
WholeOrNothing ==
  \/ recipes' = recipes
  \/ /\ last'.op = "create"
     /\ Len(recipes') = Len(recipes) + 1
     /\ SubSeq(recipes', 1, Len(recipes)) = recipes
     /\ LET d == recipes'[Len(recipes')]
        IN /\ d.title = Trimmed(last'.body.title.s)
           /\ d.title # <<>>
           /\ d.category # <<>>
           /\ d.comments = <<>>
           /\ d.createdAt = now
           /\ Lines(d.ingredients)
           /\ Lines(d.steps)
  \/ /\ last'.op = "update"
     /\ \E i \in 1..Len(recipes) :
          recipes' = [recipes EXCEPT ![i] = partialUpdate(@, last'.body)]
  \/ /\ last'.op = "delete"
     /\ \E i \in 1..Len(recipes) : recipes' = RemoveAt(recipes, i)
  \/ /\ last'.op = "comment"
     /\ \E i \in 1..Len(recipes) :
          recipes' = [recipes EXCEPT ![i].comments = Append(@, StepComment)]

\* C22: a request whose store call throws (create, update, delete,
\* add-comment or list) is answered 500 in the same step, the step is one
\* request with one failing call (no second attempt), and the collection is
\* left as it was or with the whole effect of the operation.
C22_StoreErrorIs500 ==
  [][ThrowStep =>
       /\ failedCalls' = failedCalls + 1
       /\ served' = served + 1
       /\ last'.status = 500
       /\ last'.pre = recipes
       /\ last'.post = recipes'
       /\ WholeOrNothing]_vars

\* An add-comment to a stored recipe was answered 500 although its comment
\* was written whole.
C22_Witness ==
  /\ failedCalls > 0
  /\ last.op = "comment"
  /\ last.status = 500
  /\ last.error = "Failed to add comment"
  /\ last.post # last.pre
  /\ \E i \in 1..Len(last.pre) :
       Len(last.post[i].comments) = Len(last.pre[i].comments) + 1

\* ---------------------------------------------------------------- C23
\* The process is listening only with a connection string and a connection.
ListensConnected == phase = "listening" => (uri /\ connected)

\* A request has been served only by a process that has connected.
ServesConnected == served > 0 => (uri /\ connected /\ phase = "listening")

\* The step moves start-up as the code's branches do: without a connection
\* string the only move is the exit (no connect is attempted); the connect
\* ends in listening (resolved) or in the exit (rejected); an exited process
\* stays exited and serves nothing.
StartupStep ==
  /\ (phase = "start" /\ ~uri) => phase' \in {"start", "exited"}
  /\ (phase = "start" /\ uri) => phase' \in {"start", "connecting"}
  /\ phase = "connecting" =>
       \/ phase' = "connecting"
       \/ phase' = "listening" /\ connected'
       \/ phase' = "exited" /\ ~connected'
  /\ phase = "exited" => phase' = "exited" /\ served' = served /\ recipes' = recipes

\* C23: start-up ordering: the process is listening, and a request is served,
\* only after client.connect() has resolved; without a connection string, and
\* after a connect that failed, the process exits, and once exited it never
\* listens and never serves a request.
C23_StartupOrdering ==
  []ListensConnected /\ []ServesConnected /\ [][StartupStep]_vars

\* The connection string was there, the connect failed, and the process has
\* exited without having listened or served.
C23_Witness ==
  /\ phase = "exited"
  /\ uri
  /\ ~connected
  /\ served = 0
  /\ last.op = "none"

\* ---------------------------------------------------------------- C24
\* The lookups the variants build from a path id.
Lookups(id) ==
  {idQueryTernary_B(id), buildIdQuery_B(id), buildIdQuery_C(id), buildIdQuery_D(id)}

\* The positions of the records the query matches.
MatchSet(coll, query) == {i \in 1..Len(coll) : Matches(coll[i], query)}

\* The positions at which two collections of the same length differ.
ChangedIn(pre, post) == {i \in 1..Len(pre) : post[i] # pre[i]}

\* The last request is an update, delete or add-comment that was answered 200
\* in the step of its store call.
WroteById(op) ==
  /\ last.op = op
  /\ last.status = 200
  /\ op = "update" => variant # "A"

\* A collection that holds a string-typed and an ObjectId-typed record with
\* the same hexadecimal form.
Twins == <<LegacyDoc(StringId(NewHex(0))), LegacyDoc(ObjectIdOf(NewHex(0)))>>

\* On the twins the lookup matches both records, the store call takes the
\* first, and its write leaves the second as it was.
FirstOfTwinsOnly ==
  LET query == buildIdQuery_B(NewHex(0))
      i == FirstMatch(Twins, query)
      comment == [text |-> <<"a">>, createdAt |-> 1]
  IN /\ MatchSet(Twins, query) = {1, 2}
     /\ i = 1
     /\ PushComment(Twins, i, comment)[2] = Twins[2]
     /\ PushComment(Twins, i, comment)[1] # Twins[1]
     /\ Len(PushComment(Twins, i, comment)) = 2
     /\ RemoveAt(Twins, i) = <<Twins[2]>>

\* C24: in every reachable state every lookup built from a path id (string
\* match, ObjectId match, or both) matches at most one record; an update or
\* add-comment answered 200 has changed at most one record and a delete
\* answered 200 has removed exactly one and changed none; and on a collection
\* in which the lookup does match two records (a string-typed and an
\* ObjectId-typed one with the same hexadecimal form) the store call changes
\* the first match only.
C24_AtMostOneRecord ==
  /\ \A id \in PathIds : \A query \in Lookups(id) :
       Cardinality(MatchSet(recipes, query)) <= 1
  /\ (WroteById("update") \/ WroteById("comment")) =>
       /\ Len(last.post) = Len(last.pre)
       /\ Cardinality(ChangedIn(last.pre, last.post)) <= 1
  /\ WroteById("delete") =>
       \E i \in 1..Len(last.pre) : last.post = RemoveAt(last.pre, i)
  /\ FirstOfTwinsOnly

\* An add-comment was answered 200 on a collection that holds an ObjectId-typed
\* and two string-typed records: it changed one record, the one its lookup
\* matched.
C24_Witness ==
  /\ last.op = "comment"
  /\ last.status = 200
  /\ Len(last.pre) = 3
  /\ \E i, j \in 1..Len(last.pre) :
       last.pre[i]._id.k = "string" /\ last.pre[j]._id.k = "ObjectId"
  /\ Cardinality(ChangedIn(last.pre, last.post)) = 1
  /\ \A i \in ChangedIn(last.pre, last.post) :
       MatchSet(last.pre, buildIdQuery_B(last.id)) = {i}

\* ---------------------------------------------------------------- C25
\* How many "\n" the text has before position p.
NewlinesBefore(s, p) == Cardinality({i \in 1..(p - 1) : s[i] = "\n"})

\* The position of the k-th "\n" of the text: 0 for k = 0, one past the end
\* for the one after the last.
Cut(s, k) ==
  IF k = 0 THEN 0
  ELSE CHOOSE p \in 1..(Len(s) + 1) :
         (p = Len(s) + 1 \/ s[p] = "\n") /\ NewlinesBefore(s, p) = k - 1

\* The k-th line of the text: what stands between two neighbouring cuts.
RawLine(s, k) == SubSeq(s, Cut(s, k - 1) + 1, Cut(s, k) - 1)

\* The lines of the text in order, each trimmed, the blank ones left out.
TrimmedLines(s) ==
  SelectSeq([k \in 1..(NewlinesBefore(s, Len(s) + 1) + 1) |-> Trimmed(RawLine(s, k))],
            LAMBDA line : line # <<>>)

\* The element has no white space at either end.
NoOuterSpace(line) ==
  line # <<>> => (line[1] \notin WhiteSpace /\ line[Len(line)] \notin WhiteSpace)

\* C25: splitLines (and the client's ensureArrayMaybeLines) applied to free
\* text returns the lines of the text in their order, each trimmed, without
\* the lines that are blank; applied to an absent or empty value it returns
\* the empty sequence; every element returned is non-empty, has no white
\* space at either end and holds no newline.
C25_SplitLines ==
  (applied \in {"splitLines", "ensureArrayMaybeLines"} /\ input.t # "array") =>
     /\ input.t = "string" => output = TrimmedLines(input.s)
     /\ (input = Undefined \/ input = Str(<<>>)) => output = <<>>
     /\ \A i \in 1..Len(output) :
          output[i] # <<>> /\ NoOuterSpace(output[i]) /\ NoNewline(output[i])

\* splitLines was applied to a text of two lines, the second with a space in
\* front, and returned the two lines without the space.
C25_Witness ==
  /\ applied = "splitLines"
  /\ input = Str(<<"b", "\n", " ", "a">>)
  /\ output = <<<<"b">>, <<"a">>>>

\* ---------------------------------------------------------------- C27
\* A list as the server stores it: every element non-empty, without white
\* space at its ends and without newline (or carriage return).
StoredForm(a) ==
  \A i \in 1..Len(a) :
    /\ a[i] # <<>>
    /\ NoOuterSpace(a[i])
    /\ \A j \in 1..Len(a[i]) : a[i][j] \notin {"\n", "\r"}

\* C27: for every list of lines in stored form, startEditMode's join with
\* newlines followed by the server's splitLines on the text the form sends
\* gives the same list: an edit saved without touching the field leaves the
\* stored value as it was.
C27_EditRoundTrip ==
  (applied = "edit" /\ StoredForm(input.a)) => output = input.a

\* A list of two lines, one of them with a space inside, went through the
\* edit form and was stored again as it was.
C27_Witness ==
  /\ applied = "edit"
  /\ input = Arr(<<<<"a", " ", "b">>, <<"b">>>>)
  /\ output = input.a

\* ---------------------------------------------------------------- C26
\* The step answers a request for op with the status, in the step of its
\* store call.
AnsweredStep(op, status) ==
  served' # served /\ inFlight' = inFlight /\ last'.op = op /\ last'.status = status

\* The path id of the request that writes in the step.
StepId == IF variant = "A" /\ UpdateStoreStep THEN inFlight'[Len(inFlight')].id ELSE last'.id

\* The record is the one the path id names, by its hexadecimal form.
NamedBy(doc, id) == IdToString(doc._id) = Canonical(id)

\* C26: frame of the four writes: in every step the number of stored recipes
\* grows by one exactly when a create is answered 201 (the new recipe comes
\* last, the others stay), falls by one exactly when a delete is answered 200
\* (the recipe the path id names goes, the others stay), and is unchanged
\* otherwise; a step that keeps the number changes at most one recipe, the
\* one the path id of its update or add-comment names, and only an update or
\* an add-comment that found its recipe changes any.
C26_FrameOfWrites ==
  [][/\ Len(recipes') = Len(recipes) + 1 <=> AnsweredStep("create", 201)
     /\ Len(recipes') = Len(recipes) - 1 <=> AnsweredStep("delete", 200)
     /\ Len(recipes') \in {Len(recipes) - 1, Len(recipes), Len(recipes) + 1}
     /\ Len(recipes') = Len(recipes) + 1 =>
          \A j \in 1..Len(recipes) : recipes'[j] = recipes[j]
     /\ Len(recipes') = Len(recipes) - 1 =>
          \E i \in 1..Len(recipes) :
            /\ NamedBy(recipes[i], StepId)
            /\ \A j \in 1..(i - 1) : recipes'[j] = recipes[j]
            /\ \A j \in i..Len(recipes') : recipes'[j] = recipes[j + 1]
     /\ Len(recipes') = Len(recipes) =>
          /\ Cardinality(ChangedIn(recipes, recipes')) <= 1
          /\ \A i \in ChangedIn(recipes, recipes') :
               /\ CommentStep \/ UpdateStoreStep
               /\ NamedBy(recipes[i], StepId)]_vars

\* A delete was answered 200 on a collection of three recipes: the two it
\* did not name are stored as they were.
C26_Witness ==
  /\ last.op = "delete"
  /\ last.status = 200
  /\ Len(last.pre) = 3
  /\ Len(last.post) = 2
  /\ \A j \in 1..2 : \E i \in 1..3 : last.post[j] = last.pre[i] /\ ~NamedBy(last.pre[i], last.id)
  /\ recipes = last.post

\* ---------------------------------------------------------------- C28
\* The step is a form submit: a save fetch is sent.
SubmitStep ==
  /\ clicks' # clicks
  /\ Len(fetches') = Len(fetches) + 1
  /\ fetches'[Len(fetches')].call = "save"

\* The step settles a save fetch.
SaveSettleStep == delivered'.n # delivered.n /\ delivered'.f.call = "save"

\* The fetch was answered with a 2xx status.
Success(f) == f.state = "answered" /\ f.status \in 200..299

\* C28: the form submit sends PUT /api/recipes/<editingId> exactly when
\* editingId is not null and POST /api/recipes otherwise, and leaves editingId
\* as it is; when its fetch settles with a 2xx answer editingId becomes null
\* (so that a submit right after it is a POST), and when it settles with
\* another status or rejects editingId keeps its value.
C28_EditMode ==
  [][/\ SubmitStep =>
          LET f == fetches'[Len(fetches')]
          IN /\ \/ f.method = "PUT" /\ editingId # Null /\ f.id = editingId.s
                \/ f.method = "POST" /\ editingId = Null /\ f.id = <<>>
             /\ editingId' = editingId
     /\ SaveSettleStep =>
          IF Success(delivered'.f) THEN editingId' = Null ELSE editingId' = editingId]_vars

\* A PUT sent in edit mode was answered 200 and editingId is null again.
C28_Witness ==
  /\ delivered.f.call = "save"
  /\ delivered.f.method = "PUT"
  /\ delivered.f.id # <<>>
  /\ Success(delivered.f)
  /\ delivered.f.status = 200
  /\ editingId = Null

\* ---------------------------------------------------------------- C29
\* C29: whenever editingId is not null it is the _id of a recipe of
\* currentRecipes, the list loaded last.
C29_EditingIdInCurrent ==
  editingId # Null =>
    \E i \in 1..Len(currentRecipes) : currentRecipes[i]._id.v = editingId.s

\* ---------------------------------------------------------------- C30
\* loadRecipes calls have overlapped and none is waiting for its fetch now.
LoadsDone ==
  /\ \A k \in 1..Len(fetches) : fetches[k].call # "list"
  /\ delivered.load.call = "list"
  /\ delivered.overlap

\* The container shows the recipes of the list, each on one card, in order,
\* and no recipe twice (the empty-list notice for the empty list).
Shows(list) ==
  /\ recipesContainer.kind = (IF list = <<>> THEN "empty" ELSE "cards")
  /\ recipesContainer.cards = list
  /\ \A i, j \in 1..Len(list) : list[i]._id = list[j]._id => i = j

\* C30 as stated: when the overlapping loadRecipes calls have all settled,
\* the container shows the recipes of exactly one response and currentRecipes
\* is that response.
C30_OneResponseShown_AsStated ==
  LoadsDone => (Shows(delivered.load.out) /\ currentRecipes = delivered.load.out)

\* C30: when the overlapping loadRecipes calls have all settled, the
\* container shows the recipes of the response that settled last, each once,
\* and currentRecipes is that response, or, when the load that settled last
\* failed, the error notice and no card; and whenever the container shows
\* cards they are the recipes of currentRecipes, each once: cards of two
\* responses are never mixed.
C30_OneResponseShown ==
  /\ LoadsDone =>
       IF Success(delivered.load)
       THEN Shows(delivered.load.out) /\ currentRecipes = delivered.load.out
       ELSE recipesContainer = Container("error", <<>>)
  /\ recipesContainer.kind = "cards" => Shows(currentRecipes)
  /\ recipesContainer.kind # "cards" => recipesContainer.cards = <<>>

\* The first load and the reload after a save overlapped and the response of
\* the first, taken before the save, settled last: the container shows its
\* two recipes, not the three of the reload.
C30_Witness ==
  /\ clicks = 1
  /\ LoadsDone
  /\ Success(delivered.load)
  /\ Success(delivered.before)
  /\ Len(delivered.before.out) = 3
  /\ Len(delivered.load.out) = 2
  /\ Shows(delivered.load.out)
  /\ currentRecipes = delivered.load.out

====
